---- MODULE Spec2Model ----
(***************************************************************************)
(* A model of the TI DaVinci SPI master controller driver                  *)
(* (drivers/spi/davinci_spi.c): clock divisor, word-width negotiation,     *)
(* DMA channel pairs, error classification and the transfer engines.      *)
(*                                                                         *)
(* A 32-bit register is the set of its bit positions that are 1            *)
(* (SPIFMTn) or the set of the names of its bits that are 1 (the other     *)
(* registers, whose bit positions are fixed by davinci_spi.h).             *)
(***************************************************************************)
EXTENDS Integers, Sequences, FiniteSets, TLC

\* ------------------------------------------------------------------ bounds
\* reference clock rates 1..MaxClk (plus the boards' real rates)
MaxClk == 520
\* requested bit rates 1..MaxHz (plus real rates)
MaxHz == 6
\* word widths 0..MaxWidth offered to the negotiation
MaxWidth == 17
\* hardware versions 0..MaxVersion in the platform data
MaxVersion == 2
\* calls of one run of the setup harness
MaxCalls == 2
\* bytes of a transfer: t->len in 0..MaxLen
MaxLen == 4

\* ------------------------------------------------------------ program constants
PRESCALE_MAX == 255
PRESCALE_MIN == 2
PRESCALE_SHIFT == 8
MIN_SPEED_HZ == 600000
MAX_SPEED_HZ == 50000000
NO_CHANNEL == -1
DEFAULT_BITS_PER_WORD == 8
\* the EDMA channels of the platform's DMA resources 0 and 1
dma_rx_sync_dev == 0
dma_tx_sync_dev == 1

\* enum { SPI_VERSION_1, SPI_VERSION_2 } of mach/spi.h
SPI_VERSION_1 == 0
SPI_VERSION_2 == 1

CS == {0, 1}
Versions == 0..MaxVersion
BOOL == {TRUE, FALSE}

ClkRates == (1..MaxClk) \cup {24000000, 150000000}
HzRates == (1..MaxHz) \cup {100000, 599999, 600000, 1000000, 50000000, 50000001, 75000000}

\* ------------------------------------------------------------- bit arithmetic
\* the bit positions that are 1 in the number n (0 <= n < 2^31)
Bits(n) == {i \in 0..30 : (n \div (2^i)) % 2 = 1}

\* bits << k, truncated to 32 bits
ShiftL(bits, k) == {i + k : i \in bits} \cap (0..31)

\* the number held by the field of width w at bit position lo
FieldVal(bits, lo, w) ==
  LET f[i \in 0..w] == IF i = w THEN 0
                       ELSE (IF (lo + i) \in bits THEN 2^i ELSE 0) + f[i + 1]
  IN f[0]

\* set_io_bits / clear_io_bits: v |= bits, v &= ~bits
set_io_bits(v, bits) == v \cup bits
clear_io_bits(v, bits) == v \ bits

\* masks of SPIFMTn
PRESCALE_MASK == Bits(65280)
SPIFMT_CHARLEN_MASK == Bits(31)
SPIFMT_PHASE_MASK == {16}
SPIFMT_POLARITY_MASK == {17}
SPIFMT_DISTIMER_MASK == {18}
SPIFMT_SHIFTDIR_MASK == {20}
SPIFMT_WAITENA_MASK == {21}
SPIFMT_PARITYENA_MASK == {22}
SPIFMT_ODD_PARITY_MASK == {23}
SPIFMT_WDELAY_MASK == 24..29
SPIFMT_WDELAY_SHIFT == 24

\* ------------------------------------------------------------------ state
VARIABLES
  \* platform data and probe-time configuration; whether the module clock
  \* is enabled
  version, clk_rate, pdata, use_dma, clk_enabled,
  \* struct davinci_spi
  speed, cs_num, get_rx, get_tx, slave, dma_channels,
  \* struct spi_device of each chip-select
  spi_dev,
  \* registers
  SPIFMT,
  \* EDMA channel controller: the chip-select owning each channel (-1: free),
  \* per chip-select the handles it freed while they were not allocated to it,
  \* whether its pair was ever allocated in full, and how the last
  \* davinci_spi_request_dma ended ("none": not called by the last setup)
  edma_owner, edma_bad_free, ever_paired, req_ret,
  \* the last completed call: its name, chip-select, outcome, the registers it
  \* wrote, the divisor it computed, the word width it negotiated (-1: none)
  last_op, last_cs, last_ret, wrote, prescale, last_width,
  \* the calls made so far, in a harness that bounds them
  ncalls,
  \* davinci_spi_check_error: snapshot, and the previous snapshot and outcome
  int_status, diag, prev_status, prev_ret,
  \* struct davinci_spi: the in-flight flag, the completion 'done' (the
  \* number of signals not yet consumed), the buffer cursors tx and rx (the
  \* caller whose buffer they point into, 0 for NULL, and the byte offset)
  \* and the word count
  in_use, done, tx, rx, count,
  \* registers of the controller, each the set of the names of its bits
  \* that are 1; SPIDEF the set of its chip-select bits; SPIDELAY and SPIDAT1
  \* the fields last written
  SPIGCR1, SPIPC0, SPIDEF, SPIINT, SPIDELAY, SPIDAT1,
  \* the serial engine: the word written to SPIDAT1 and not yet shifted out
  \* (<<>>: transmit buffer empty), whether the receive buffer holds an
  \* unread word, and the data last received
  hw_tx, rxfull, rxdata,
  \* per caller: the call in progress (its position, transfer descriptor and
  \* locals) and the memory of its receive buffer
  ctx, rxbuf,
  \* per chip-select the completions of the DMA pair; per EDMA channel its
  \* state; the buffers that are DMA-mapped
  dma_completion, edma_state, mapped,
  \* whether a call that found in_use set wrote a register while the call
  \* that had set it was in flight
  overlap_write

cfgVars == <<version, clk_rate, pdata, use_dma, clk_enabled>>
ctlVars == <<speed, cs_num, get_rx, get_tx, slave, dma_channels>>
devVars == <<spi_dev>>
regVars == <<SPIFMT>>
dmaVars == <<edma_owner, edma_bad_free, ever_paired, req_ret>>
callVars == <<last_op, last_cs, last_ret, wrote, prescale, last_width, ncalls>>

\* one more call made, in a harness that makes MaxCalls calls
Tick == ncalls < MaxCalls /\ ncalls' = ncalls + 1
errVars == <<int_status, diag, prev_status, prev_ret>>
flightVars == <<in_use, done, tx, rx, count>>
ioVars == <<SPIGCR1, SPIPC0, SPIDEF, SPIINT, SPIDELAY, SPIDAT1>>
hwVars == <<hw_tx, rxfull, rxdata>>
callerVars == <<ctx, rxbuf, overlap_write>>
edmaVars == <<dma_completion, edma_state, mapped>>
xferVars == <<flightVars, ioVars, hwVars, callerVars, edmaVars>>

vars == <<cfgVars, ctlVars, devVars, regVars, dmaVars, callVars, errVars, xferVars>>

\* ------------------------------------------------- davinci_spi_calc_clk_div
\* a mutant: the quotient is taken as the prescale, without the decrement
ClampedPrescale_no_decrement(clk, hz) ==
  LET q == clk \div hz
  IN IF q > PRESCALE_MAX THEN PRESCALE_MAX ELSE q

\* prescale = ((clk_rate / hz) - 1); if (prescale > 0xff) prescale = 0xff;
\* prescale is a u32: for clk_rate / hz = 0 the difference wraps to 0xffffffff
ClampedPrescale(clk, hz) ==
  LET q == clk \div hz
  IN IF q = 0 THEN PRESCALE_MAX
     ELSE IF q - 1 > PRESCALE_MAX THEN PRESCALE_MAX ELSE q - 1

\* if (hz < (clk_rate / (prescale + 1))) prescale++;
RoundedPrescale(clk, hz) ==
  LET p == ClampedPrescale(clk, hz)
  IN IF hz < clk \div (p + 1) THEN p + 1 ELSE p

\* if (prescale < 2) prescale = 2;
CalcPrescale(clk, hz) ==
  LET p == RoundedPrescale(clk, hz)
  IN IF p < PRESCALE_MIN THEN PRESCALE_MIN ELSE p

\* clear_fmt_bits(base, 0x0000ff00, cs_num); set_fmt_bits(base, prescale << 8, cs_num)
FmtWithPrescale(fmt, p) ==
  set_io_bits(clear_io_bits(fmt, PRESCALE_MASK), ShiftL(Bits(p), PRESCALE_SHIFT))


\* ------------------------------------------------- davinci_spi_check_error
\* the error bits of SPIFLG
ErrFlags == {"TIMEOUT", "DESYNC", "BITERR", "DLEN_ERR", "PARERR", "OVRRUN",
             "TX_INTR", "BUF_INIT_ACTIVE"}

Outcome(r, d) == [ret |-> r, diag |-> d]

\* a mutant: the desynchronisation bit is tested before the time-out bit
check_error_desync_first(v, st) ==
  IF "DESYNC" \in st THEN Outcome("EIO", "SPI Desynchronization Error")
  ELSE IF "TIMEOUT" \in st THEN Outcome("ETIMEDOUT", "SPI Time-out Error")
  ELSE IF "BITERR" \in st THEN Outcome("EIO", "SPI Bit error")
  ELSE IF v > SPI_VERSION_2 /\ "DLEN_ERR" \in st THEN Outcome("EIO", "SPI Data Length Error")
  ELSE IF v > SPI_VERSION_2 /\ "PARERR" \in st THEN Outcome("EIO", "SPI Parity Error")
  ELSE IF v > SPI_VERSION_2 /\ "OVRRUN" \in st THEN Outcome("EIO", "SPI Data Overrun error")
  ELSE IF v > SPI_VERSION_2 /\ "TX_INTR" \in st THEN Outcome("EIO", "SPI TX intr bit set")
  ELSE IF v > SPI_VERSION_2 /\ "BUF_INIT_ACTIVE" \in st THEN Outcome("EBUSY", "SPI Buffer Init Active")
  ELSE Outcome("OK", "")

\* a mutant: buffer-init-active is reported as an I/O error like the others
check_error_busy_as_eio(v, st) ==
  IF "TIMEOUT" \in st THEN Outcome("ETIMEDOUT", "SPI Time-out Error")
  ELSE IF "DESYNC" \in st THEN Outcome("EIO", "SPI Desynchronization Error")
  ELSE IF "BITERR" \in st THEN Outcome("EIO", "SPI Bit error")
  ELSE IF v > SPI_VERSION_2 /\ "DLEN_ERR" \in st THEN Outcome("EIO", "SPI Data Length Error")
  ELSE IF v > SPI_VERSION_2 /\ "PARERR" \in st THEN Outcome("EIO", "SPI Parity Error")
  ELSE IF v > SPI_VERSION_2 /\ "OVRRUN" \in st THEN Outcome("EIO", "SPI Data Overrun error")
  ELSE IF v > SPI_VERSION_2 /\ "TX_INTR" \in st THEN Outcome("EIO", "SPI TX intr bit set")
  ELSE IF v > SPI_VERSION_2 /\ "BUF_INIT_ACTIVE" \in st THEN Outcome("EIO", "SPI Buffer Init Active")
  ELSE Outcome("OK", "")

\* a mutant: the buffer-init-active bit is not tested
check_error_no_busy(v, st) ==
  IF "TIMEOUT" \in st THEN Outcome("ETIMEDOUT", "SPI Time-out Error")
  ELSE IF "DESYNC" \in st THEN Outcome("EIO", "SPI Desynchronization Error")
  ELSE IF "BITERR" \in st THEN Outcome("EIO", "SPI Bit error")
  ELSE IF v > SPI_VERSION_2 /\ "DLEN_ERR" \in st THEN Outcome("EIO", "SPI Data Length Error")
  ELSE IF v > SPI_VERSION_2 /\ "PARERR" \in st THEN Outcome("EIO", "SPI Parity Error")
  ELSE IF v > SPI_VERSION_2 /\ "OVRRUN" \in st THEN Outcome("EIO", "SPI Data Overrun error")
  ELSE IF v > SPI_VERSION_2 /\ "TX_INTR" \in st THEN Outcome("EIO", "SPI TX intr bit set")
  ELSE Outcome("OK", "")

\* the classifier: the outcome and the diagnostic of the first test that matches
davinci_spi_check_error(v, st) ==
  IF "TIMEOUT" \in st THEN Outcome("ETIMEDOUT", "SPI Time-out Error")
  ELSE IF "DESYNC" \in st THEN Outcome("EIO", "SPI Desynchronization Error")
  ELSE IF "BITERR" \in st THEN Outcome("EIO", "SPI Bit error")
  ELSE IF v > SPI_VERSION_2 /\ "DLEN_ERR" \in st THEN Outcome("EIO", "SPI Data Length Error")
  ELSE IF v > SPI_VERSION_2 /\ "PARERR" \in st THEN Outcome("EIO", "SPI Parity Error")
  ELSE IF v > SPI_VERSION_2 /\ "OVRRUN" \in st THEN Outcome("EIO", "SPI Data Overrun error")
  ELSE IF v > SPI_VERSION_2 /\ "TX_INTR" \in st THEN Outcome("EIO", "SPI TX intr bit set")
  ELSE IF v > SPI_VERSION_2 /\ "BUF_INIT_ACTIVE" \in st THEN Outcome("EBUSY", "SPI Buffer Init Active")
  ELSE Outcome("OK", "")

\* ---------------------------------------------- davinci_spi_setup_transfer
\* the accessor pair bound for a word width, "none" when the width is rejected
WidthAccessor(bits_per_word) ==
  IF bits_per_word <= 8 /\ bits_per_word >= 2 THEN "u8"
  ELSE IF bits_per_word <= 16 /\ bits_per_word >= 2 THEN "u16"
  ELSE "none"

AccessorBytes(acc) == IF acc = "u8" THEN 1 ELSE 2

\* if (t) bits_per_word = t->bits_per_word; if (!bits_per_word) the device's
EffectiveWidth(dev, t_bits) == IF t_bits # 0 THEN t_bits ELSE dev.bits_per_word

\* if (t) hz = t->speed_hz; if (!hz) hz = spi->max_speed_hz
EffectiveHz(dev, t_hz) == IF t_hz # 0 THEN t_hz ELSE dev.max_speed_hz

\* clear_fmt_bits(CHARLEN_MASK); set_fmt_bits(bits_per_word & 0x1f); calc_clk_div
FmtAfterSetupTransfer(fmt, bits_per_word, hz) ==
  FmtWithPrescale(
    set_io_bits(clear_io_bits(fmt, SPIFMT_CHARLEN_MASK),
                Bits(bits_per_word) \cap Bits(31)),
    CalcPrescale(clk_rate, hz))

\* the part of the controller state davinci_spi_setup_transfer(spi, t) leaves,
\* run on the format register value fmt of chip-select cs; t = NULL is
\* t_bits = 0, t_hz = 0
SetupTransferEffect(fmt, cs, dev, t_bits, t_hz) ==
  LET bpw == EffectiveWidth(dev, t_bits)
      acc == WidthAccessor(bpw)
      hz == EffectiveHz(dev, t_hz)
  IN IF acc = "none"
     THEN [ret |-> "EINVAL", acc |-> get_rx, slave |-> slave, speed |-> speed,
           cs_num |-> cs_num, fmt |-> fmt, wrote |-> {},
           prescale |-> prescale]
     ELSE [ret |-> "OK", acc |-> acc,
           slave |-> [slave EXCEPT ![cs].bytes_per_word = AccessorBytes(acc)],
           speed |-> hz, cs_num |-> cs,
           fmt |-> FmtAfterSetupTransfer(fmt, bpw, hz), wrote |-> {"SPIFMT"},
           prescale |-> CalcPrescale(clk_rate, hz)]

davinci_spi_setup_transfer(cs, t_bits, t_hz) ==
  /\ spi_dev[cs].registered
  /\ \E e \in {SetupTransferEffect(SPIFMT[cs], cs, spi_dev[cs], t_bits, t_hz)} :
        /\ get_rx' = e.acc
        /\ get_tx' = e.acc
        /\ slave' = e.slave
        /\ speed' = e.speed
        /\ cs_num' = e.cs_num
        /\ SPIFMT' = [SPIFMT EXCEPT ![cs] = e.fmt]
        /\ wrote' = e.wrote
        /\ prescale' = e.prescale
        /\ last_ret' = e.ret
  /\ last_width' = EffectiveWidth(spi_dev[cs], t_bits)
  /\ last_op' = "setup_transfer"
  /\ last_cs' = cs
  /\ UNCHANGED <<xferVars, cfgVars, dma_channels, devVars, dmaVars, errVars>>

\* ------------------------------------------------- davinci_spi_request_dma
\* edma_alloc_channel(ch): the channel, when it is free and the channel
\* controller grants it (grant: no other driver holds it); a negative value else
EdmaAllocOk(owner, ch, grant) == owner[ch] = NO_CHANNEL /\ grant

\* edma_free_channel(h) by chip-select cs: releases h when cs holds it
EdmaFree(owner, cs, h) ==
  IF h \in DOMAIN owner /\ owner[h] = cs THEN [owner EXCEPT ![h] = NO_CHANNEL]
  ELSE owner

\* the handles among hs that chip-select cs does not hold: freeing them is an error
NotHeld(owner, cs, hs) == {h \in hs : ~(h \in DOMAIN owner /\ owner[h] = cs)}

\* a mutant: the RX channel is left allocated when the TX allocation fails
\* davinci_spi_request_dma on the pair d of chip-select cs
RequestDma(cs, d, owner, rx_grant, tx_grant) ==
  IF ~EdmaAllocOk(owner, dma_rx_sync_dev, rx_grant)
  THEN [ret |-> "EAGAIN", stage |-> "rx_failed", d |-> d, owner |-> owner]
  ELSE LET owner1 == [owner EXCEPT ![dma_rx_sync_dev] = cs]
           d1 == [d EXCEPT !.dma_rx_channel = dma_rx_sync_dev]
       IN IF ~EdmaAllocOk(owner1, dma_tx_sync_dev, tx_grant)
          THEN [ret |-> "EAGAIN", stage |-> "tx_failed",
                d |-> [d1 EXCEPT !.dma_rx_channel = NO_CHANNEL],
                owner |-> EdmaFree(owner1, cs, d1.dma_rx_channel)]
          ELSE [ret |-> "OK", stage |-> "paired",
                d |-> [d1 EXCEPT !.dma_tx_channel = dma_tx_sync_dev],
                owner |-> [owner1 EXCEPT ![dma_tx_sync_dev] = cs]]

\* ------------------------------------------------------- davinci_spi_setup
\* fmt with the bits of mask set when on, cleared otherwise
FmtBit(fmt, mask, on) ==
  IF on THEN set_io_bits(fmt, mask) ELSE clear_io_bits(fmt, mask)

\* the SPIFMTn writes of davinci_spi_setup before it calls setup_transfer
FmtAfterSetupMode(fmt, mode) ==
  LET f1 == FmtBit(fmt, SPIFMT_SHIFTDIR_MASK, "SPI_LSB_FIRST" \in mode)
      f2 == FmtBit(f1, SPIFMT_POLARITY_MASK, "SPI_CPOL" \in mode)
      f3 == FmtBit(f2, SPIFMT_PHASE_MASK, "SPI_CPHA" \notin mode)
      g1 == set_io_bits(clear_io_bits(f3, SPIFMT_WDELAY_MASK),
                        ShiftL(Bits(pdata.wdelay), SPIFMT_WDELAY_SHIFT)
                          \cap SPIFMT_WDELAY_MASK)
      g2 == FmtBit(g1, SPIFMT_ODD_PARITY_MASK, pdata.odd_parity)
      g3 == FmtBit(g2, SPIFMT_PARITYENA_MASK, pdata.parity_enable)
      g4 == FmtBit(g3, SPIFMT_WAITENA_MASK, pdata.wait_enable)
      g5 == FmtBit(g4, SPIFMT_DISTIMER_MASK, pdata.timer_disable)
  IN IF version = SPI_VERSION_2 THEN g5 ELSE f3

\* if ((dma_rx_channel == -1) || (dma_tx_channel == -1)) request the pair
NeedsDmaRequest(d) == d.dma_rx_channel = NO_CHANNEL \/ d.dma_tx_channel = NO_CHANNEL

\* if (max_speed_hz < 600000 || max_speed_hz > 50000000) return -EINVAL
RateOutOfRange(hz) == hz < MIN_SPEED_HZ \/ hz > MAX_SPEED_HZ

davinci_spi_setup(cs, bits, hz, mode, rx_grant, tx_grant) ==
  /\ ~spi_dev[cs].present \/ spi_dev[cs].registered
  /\ LET dev == [bits_per_word |-> IF bits = 0 THEN DEFAULT_BITS_PER_WORD ELSE bits,
                 max_speed_hz |-> hz, mode |-> mode]
         request == use_dma /\ NeedsDmaRequest(dma_channels[cs])
         reached(r) == r.ret = "OK" /\ ~RateOutOfRange(hz)
     IN \E r \in {IF request
                  THEN RequestDma(cs, dma_channels[cs], edma_owner, rx_grant, tx_grant)
                  ELSE [ret |-> "OK", stage |-> "none", d |-> dma_channels[cs],
                        owner |-> edma_owner]} :
        \E e \in {IF reached(r)
                  THEN SetupTransferEffect(FmtAfterSetupMode(SPIFMT[cs], mode),
                                           cs, dev, 0, 0)
                  ELSE [ret |-> IF r.ret # "OK" THEN r.ret ELSE "EINVAL",
                        acc |-> get_rx, slave |-> slave, speed |-> speed,
                        cs_num |-> cs_num, fmt |-> SPIFMT[cs], wrote |-> {},
                        prescale |-> prescale]} :
          /\ dma_channels' = [dma_channels EXCEPT ![cs] = r.d]
          /\ edma_owner' = r.owner
          /\ req_ret' = r.stage
          /\ ever_paired' = [ever_paired EXCEPT ![cs] = @ \/ r.stage = "paired"]
          /\ spi_dev' = [spi_dev EXCEPT
                 ![cs] = [bits_per_word |-> dev.bits_per_word,
                          max_speed_hz |-> hz, mode |-> mode, present |-> TRUE,
                          registered |-> spi_dev[cs].registered \/ e.ret = "OK"]]
          /\ SPIFMT' = [SPIFMT EXCEPT ![cs] = e.fmt]
          /\ wrote' = IF reached(r) THEN {"SPIFMT"} ELSE {}
          /\ slave' = [e.slave EXCEPT ![cs].cmd_to_write = 0]
          /\ get_rx' = e.acc
          /\ get_tx' = e.acc
          /\ speed' = e.speed
          /\ cs_num' = e.cs_num
          /\ prescale' = e.prescale
          /\ last_width' = IF reached(r) THEN dev.bits_per_word ELSE -1
          /\ last_ret' = e.ret
  /\ last_op' = "setup"
  /\ last_cs' = cs
  /\ UNCHANGED <<xferVars, cfgVars, edma_bad_free, errVars>>

\* ----------------------------------------------------- davinci_spi_cleanup
\* a mutant: the channels are freed whatever their handles are
CleanupFrees_unguarded(d) == TRUE

\* if ((dma_rx_channel != -1) && (dma_tx_channel != -1)) free both
CleanupFrees(d) == d.dma_rx_channel # NO_CHANNEL /\ d.dma_tx_channel # NO_CHANNEL

davinci_spi_cleanup(cs) ==
  /\ spi_dev[cs].present
  /\ LET d == dma_channels[cs]
         frees == use_dma /\ CleanupFrees(d)
         hs == {d.dma_tx_channel, d.dma_rx_channel}
     IN /\ edma_owner' = IF frees
                         THEN EdmaFree(EdmaFree(edma_owner, cs, d.dma_tx_channel),
                                       cs, d.dma_rx_channel)
                         ELSE edma_owner
        /\ edma_bad_free' = IF frees
                            THEN [edma_bad_free EXCEPT
                                    ![cs] = @ \cup NotHeld(edma_owner, cs, hs)]
                            ELSE edma_bad_free
  /\ spi_dev' = [spi_dev EXCEPT ![cs].present = FALSE, ![cs].registered = FALSE]
  /\ last_op' = "cleanup"
  /\ last_cs' = cs
  /\ last_ret' = "OK"
  /\ wrote' = {}
  /\ last_width' = -1
  /\ UNCHANGED <<xferVars, cfgVars, ctlVars, regVars, ever_paired, req_ret, prescale, errVars>>

\* ------------------------------------------------- transfers: data and hardware
\* the contexts that call the transfer engines
Threads == {1, 2}

\* byte k of the transmit buffer a caller fills: the bytes differ by position
TxPattern(len) == [k \in 1..len |-> 16 + k]

\* the values of a byte read outside a buffer
WildBytes == {0, 255}

\* the words a slave shifts back when loop-back is off
SlaveWords == {90}

\* SPIGCR1_LOOPBACK_MASK, SPIGCR1_SPIENA_MASK; the bits of SPIINT
SPIINT_ALL == {"DLEN_ERR_INTR", "TIMEOUT_INTR", "PARERR_INTR", "DESYNC_INTR",
               "BITERR_INTR", "OVRRUN_INTR", "RX_INTR", "TX_INTR",
               "DMA_REQ_EN", "ENABLE_HIGHZ", "RESERVED"}
SPIINT_MASKALL == SPIINT_ALL \ {"RESERVED"}

\* CS_DEFAULT: the eight chip-select bits
CS_DEFAULT == 0..7

\* the SCSnFUN bit of SPIPC0
CsFun(cs) == IF cs = 0 THEN "SCS0FUN" ELSE "SCS1FUN"

\* a command word of SPIDAT1: CSHOLD, the CSNR field, the 16-bit data field
CmdWord(hold, csnr, data) == [cshold |-> hold, csnr |-> csnr, data |-> data]

\* a pointer into the buffer of caller b at byte offset off; b = 0: NULL
Ptr(b, off) == [buf |-> b, off |-> off]

\* a transfer descriptor (struct spi_transfer and the chip-select of its device)
Xfer(cs, len, has_tx, has_rx, tx_buf) ==
  [cs |-> cs, len |-> len, has_tx |-> has_tx, has_rx |-> has_rx, tx_buf |-> tx_buf]

\* a receive buffer of len bytes as the caller hands it over
RxFill(len) == [i \in 1..len |-> 255]

\* a caller that has made no call
IdleCtx ==
  [pc |-> "idle", t |-> Xfer(0, 0, FALSE, FALSE, <<>>), count |-> 0,
   data1_reg_val |-> CmdWord(FALSE, {}, 0), i |-> 0, temp_count |-> 0,
   ret |-> "OK", claimed |-> FALSE, signalled |-> FALSE, busy_entry |-> FALSE,
   words |-> 0, oob |-> FALSE, hw_err |-> FALSE, started |-> FALSE,
   op |-> "none", spun |-> FALSE]

\* ioread32(SPIBUF): the flags and the data; the read empties the receive buffer
SpiBuf == [txfull |-> hw_tx # <<>>, rxempty |-> ~rxfull, data |-> rxdata]

\* iowrite32(word, SPIDAT1): the data field enters the transmit buffer of an
\* enabled controller
Dat1Written(word) ==
  /\ SPIDAT1' = word
  /\ hw_tx' = IF "SPIENA" \in SPIGCR1 THEN <<word.data>> ELSE hw_tx

\* the serial engine shifts the pending word out; what comes back is that
\* word's data field under loop-back, a word of the slave otherwise
HwTransfer ==
  /\ hw_tx # <<>>
  /\ "SPIENA" \in SPIGCR1
  /\ clk_enabled
  /\ \E w \in (IF "LOOPBACK" \in SPIGCR1 THEN {hw_tx[1]} ELSE SlaveWords) :
       rxdata' = w
  /\ rxfull' = TRUE
  /\ hw_tx' = <<>>
  /\ UNCHANGED <<cfgVars, ctlVars, devVars, regVars, dmaVars, callVars, errVars,
                 flightVars, ioVars, callerVars, edmaVars>>

\* byte k of a transmit buffer; a read past its end yields any byte
TxByte(buf, k) == IF k <= Len(buf) THEN {buf[k]} ELSE WildBytes

\* davinci_spi_tx_buf_u8 / davinci_spi_tx_buf_u16: the values *tx can have
TxWord(acc, buf, off) ==
  IF acc = "u8" THEN TxByte(buf, off + 1)
  ELSE {b0 + 256 * b1 : b0 \in TxByte(buf, off + 1), b1 \in TxByte(buf, off + 2)}

\* davinci_spi_rx_buf_u8 / davinci_spi_rx_buf_u16: *rx = (u8)data or (u16)data
RxStored(acc, mem, off, data) ==
  [k \in 1..Len(mem) |->
     IF k = off + 1 THEN data % 256
     ELSE IF acc = "u16" /\ k = off + 2 THEN (data \div 256) % 256
     ELSE mem[k]]

\* the access of an accessor at offset off falls outside a buffer of n bytes
OutOfBuffer(acc, n, off) == off + AccessorBytes(acc) > n

\* the call of caller u holds the controller: in_use set by it and not yet
\* cleared by it
InFlight(u) == ctx[u].claimed /\ ctx[u].pc \notin {"idle", "returned", "xfer_complete"}

\* a register write by caller t while another call is in flight
Overlaps(t) == \E u \in Threads \ {t} : InFlight(u)

\* ctx and rxbuf after get_rx(data) by a call (or by the
\* interrupt handler on its behalf)
GetRx(data) ==
  /\ rx' = Ptr(rx.buf, rx.off + AccessorBytes(get_rx))
  /\ rxbuf' = IF rx.buf = 0 THEN rxbuf
              ELSE [rxbuf EXCEPT ![rx.buf] = RxStored(get_rx, @, rx.off, data)]

\* whether get_rx writes outside the buffer rx points into
RxOob == rx.buf = 0 \/ OutOfBuffer(get_rx, Len(rxbuf[rx.buf]), rx.off)


\* ------------------------------------------------------ davinci_spi_chipselect
\* what the model leaves alone in every step of a transfer
SetupUnchanged == UNCHANGED <<cfgVars, ctlVars, devVars, regVars, dmaVars, callVars, errVars>>

\* the same for the step that begins a call, which the harness counts
CallUnchanged ==
  UNCHANGED <<cfgVars, ctlVars, devVars, regVars, dmaVars, errVars,
              last_op, last_cs, last_ret, wrote, prescale, last_width>>

\* caller t is between calls
MayCall(t) == ctx[t].pc \in {"idle", "returned"}

\* the position of caller t, and the step of its context to r
At(t, l) == ctx[t].pc = l
Goes(t, r) == ctx' = [ctx EXCEPT ![t] = r]

\* caller t writes a register: an overlap when its call found in_use set and
\* the call that set it is still in flight
WritesRegister(t) ==
  overlap_write' = (overlap_write \/ (ctx[t].busy_entry /\ Overlaps(t)))

\* davinci_spi_chipselect(spi, value): BITBANG_CS_INACTIVE raises every
\* chip-select in SPIDEF and writes the command word with CSNR all ones;
\* any other value does nothing
davinci_spi_chipselect(t, value) ==
  /\ MayCall(t)
  /\ IF value = "BITBANG_CS_INACTIVE"
     THEN /\ SPIDEF' = set_io_bits(SPIDEF, CS_DEFAULT)
          /\ Dat1Written(CmdWord(FALSE, CS_DEFAULT, 0))
          /\ Goes(t, [IdleCtx EXCEPT !.pc = "cs_drain", !.op = "cs_inactive"])
     ELSE /\ UNCHANGED <<SPIDEF, SPIDAT1, hw_tx>>
          /\ Goes(t, [IdleCtx EXCEPT !.op = "cs_active"])
  /\ rxbuf' = [rxbuf EXCEPT ![t] = <<>>]
  /\ UNCHANGED <<flightVars, SPIGCR1, SPIPC0, SPIINT, SPIDELAY, rxfull, rxdata,
                 overlap_write, edmaVars>>
  /\ CallUnchanged

\* a mutant: the buffer register is read once and the call returns
chipselect_drain_once(t) ==
  /\ At(t, "cs_drain")
  /\ rxfull' = FALSE
  /\ Goes(t, [ctx[t] EXCEPT !.pc = "idle", !.spun = ~SpiBuf.rxempty])
  /\ UNCHANGED <<flightVars, ioVars, hw_tx, rxdata, rxbuf, overlap_write,
                 edmaVars>>
  /\ SetupUnchanged

\* while ((ioread32(SPIBUF) & SPIBUF_RXEMPTY_MASK) == 0) cpu_relax();
chipselect_drain(t) ==
  /\ At(t, "cs_drain")
  /\ IF SpiBuf.rxempty
     THEN Goes(t, [ctx[t] EXCEPT !.pc = "idle"]) /\ UNCHANGED rxfull
     ELSE rxfull' = FALSE /\ Goes(t, [ctx[t] EXCEPT !.spun = TRUE])
  /\ UNCHANGED <<flightVars, ioVars, hw_tx, rxdata, rxbuf, overlap_write,
                 edmaVars>>
  /\ SetupUnchanged

\* -------------------------------------------------------- davinci_spi_bufs_prep
BytesPerWord(cs) == slave[cs].bytes_per_word

\* op_mode, written to SPIPC0
PrepOpMode(dev, cs) ==
  {"DIFUN", "DOFUN", "CLKFUN"}
    \cup (IF "SPI_NO_CS" \notin dev.mode THEN {CsFun(cs)} ELSE {})
    \cup (IF "SPI_READY" \in dev.mode THEN {"SPIENA_PIN"} ELSE {})

\* SPIGCR1 with the loop-back bit set or cleared after spi->mode
PrepGcr1(gcr1, dev) ==
  IF "SPI_LOOP" \in dev.mode THEN set_io_bits(gcr1, {"LOOPBACK"})
  ELSE clear_io_bits(gcr1, {"LOOPBACK"})

\* lines 560..565, 711..716: the buffers and the word count of the
\* descriptor d are bound to the controller for the call of caller t
BindBuffers(t, d) ==
  /\ MayCall(t)
  /\ spi_dev[d.cs].registered
  /\ BytesPerWord(d.cs) > 0
  /\ tx' = IF d.has_tx THEN Ptr(t, 0) ELSE Ptr(0, 0)
  /\ rx' = IF d.has_rx THEN Ptr(t, 0) ELSE Ptr(0, 0)
  /\ count' = d.len \div BytesPerWord(d.cs)
  /\ rxbuf' = [rxbuf EXCEPT ![t] = IF d.has_rx THEN RxFill(d.len) ELSE <<>>]

\* davinci_spi_bufs_prep(spi, davinci_spi): SPIPC0 and the loop-back bit
davinci_spi_bufs_prep(t, d) ==
  /\ SPIPC0' = PrepOpMode(spi_dev[d.cs], d.cs)
  /\ SPIGCR1' = PrepGcr1(SPIGCR1, spi_dev[d.cs])
  /\ overlap_write' = (overlap_write \/ (in_use /\ Overlaps(t)))

\* -------------------------------------------------------- davinci_spi_bufs_pio
\* lines 560..569: entry of the call by caller t with the descriptor d
bufs_pio_entry(t, d) ==
  /\ ~use_dma
  /\ BindBuffers(t, d)
  /\ davinci_spi_bufs_prep(t, d)
  /\ Goes(t, [IdleCtx EXCEPT !.pc = "pio_claim", !.t = d, !.busy_entry = in_use])
  /\ UNCHANGED <<in_use, done, SPIDEF, SPIINT, SPIDELAY, SPIDAT1, hwVars,
                 edmaVars>>
  /\ CallUnchanged

\* INIT_COMPLETION(davinci_spi->done); davinci_spi->in_use = true;
xfer_claim(t) ==
  /\ At(t, "pio_claim") \/ At(t, "dma_claim")
  /\ done' = 0
  /\ in_use' = TRUE
  /\ Goes(t, [ctx[t] EXCEPT !.pc = IF At(t, "pio_claim") THEN "pio_enable" ELSE "dma_regs",
                            !.claimed = TRUE])
  /\ UNCHANGED <<tx, rx, count, ioVars, hwVars, rxbuf, overlap_write, edmaVars>>
  /\ SetupUnchanged

\* the command word without data: CSHOLD and tmp = ~(1 << chip_select) as CSNR
BaseCmd(cs) == CmdWord(pdata.cs_hold, CS_DEFAULT \ {cs}, 0)

\* lines 574..587: enable, the delays, the chip-select default, the locals
pio_enable(t) ==
  /\ At(t, "pio_enable")
  /\ SPIGCR1' = set_io_bits(SPIGCR1, {"SPIENA"})
  /\ SPIDELAY' = [c2tdelay |-> pdata.c2tdelay, t2cdelay |-> pdata.t2cdelay]
  /\ SPIDEF' = clear_io_bits(SPIDEF, {ctx[t].t.cs})
  /\ Goes(t, [ctx[t] EXCEPT !.pc = "pio_drain", !.count = count,
                            !.data1_reg_val = BaseCmd(ctx[t].t.cs)])
  /\ WritesRegister(t)
  /\ UNCHANGED <<flightVars, SPIPC0, SPIINT, SPIDAT1, hwVars, rxbuf, edmaVars>>
  /\ SetupUnchanged

\* lines 589..595, 623: the receive buffer is read until it is empty,
\* then the mode of the transfer is chosen
pio_drain(t) ==
  /\ At(t, "pio_drain")
  /\ IF ~SpiBuf.rxempty
     THEN /\ rxfull' = FALSE
          /\ UNCHANGED <<ctx, SPIINT, overlap_write>>
     ELSE /\ UNCHANGED rxfull
          /\ IF ctx[t].t.has_tx
             THEN /\ SPIINT' = clear_io_bits(SPIINT, SPIINT_MASKALL)
                  /\ WritesRegister(t)
                  /\ Goes(t, [ctx[t] EXCEPT !.pc = "fd_fetch"])
             ELSE /\ UNCHANGED <<SPIINT, overlap_write>>
                  /\ Goes(t, [ctx[t] EXCEPT !.pc = IF pdata.poll_mode THEN "po_issue"
                                                   ELSE "ir_issue",
                                            !.i = 0])
  /\ UNCHANGED <<flightVars, SPIGCR1, SPIPC0, SPIDEF, SPIDELAY, SPIDAT1, hw_tx, rxdata,
                 rxbuf, edmaVars>>
  /\ SetupUnchanged


\* lines 598..609: the next word is fetched and merged into the command word;
\* it is written, and counted, only when SPIBUF shows the transmit buffer free
pio_fd_fetch(t) ==
  /\ At(t, "fd_fetch")
  /\ tx.buf # 0
  /\ \E w \in TxWord(get_tx, ctx[tx.buf].t.tx_buf, tx.off) :
       LET cmd == [ctx[t].data1_reg_val EXCEPT !.data = w % 65536]
           oob == OutOfBuffer(get_tx, Len(ctx[tx.buf].t.tx_buf), tx.off)
       IN IF ~SpiBuf.txfull
          THEN /\ Dat1Written(cmd)
               /\ WritesRegister(t)
               /\ Goes(t, [ctx[t] EXCEPT !.pc = "fd_wait", !.data1_reg_val = cmd,
                                         !.count = @ - 1, !.words = @ + 1,
                                         !.oob = @ \/ oob])
          ELSE /\ UNCHANGED <<SPIDAT1, hw_tx, overlap_write>>
               /\ Goes(t, [ctx[t] EXCEPT !.pc = "fd_wait", !.data1_reg_val = cmd,
                                         !.oob = @ \/ oob])
  /\ tx' = Ptr(tx.buf, tx.off + AccessorBytes(get_tx))
  /\ rxfull' = FALSE
  /\ UNCHANGED <<in_use, done, rx, count, SPIGCR1, SPIPC0, SPIDEF, SPIINT, SPIDELAY,
                 rxdata, rxbuf, edmaVars>>
  /\ SetupUnchanged

\* a mutant: the wait tests the transmit-full bit in place of the
\* receive-empty bit
pio_wait_rx_wrong_mask(t) ==
  /\ At(t, "fd_wait") \/ At(t, "po_wait")
  /\ SpiBuf.txfull
  /\ rxfull' = FALSE
  /\ Goes(t, [ctx[t] EXCEPT !.pc = IF At(t, "fd_wait") THEN "fd_store" ELSE "po_store"])
  /\ UNCHANGED <<flightVars, ioVars, hw_tx, rxdata, rxbuf, overlap_write,
                 edmaVars>>
  /\ SetupUnchanged

\* lines 610..612, 631..633: while (ioread32(SPIBUF) & SPIBUF_RXEMPTY_MASK)
pio_wait_rx(t) ==
  /\ At(t, "fd_wait") \/ At(t, "po_wait")
  /\ ~SpiBuf.rxempty
  /\ rxfull' = FALSE
  /\ Goes(t, [ctx[t] EXCEPT !.pc = IF At(t, "fd_wait") THEN "fd_store" ELSE "po_store"])
  /\ UNCHANGED <<flightVars, ioVars, hw_tx, rxdata, rxbuf, overlap_write,
                 edmaVars>>
  /\ SetupUnchanged

\* lines 614..620: the received word is stored when there is a receive
\* buffer; the loop ends when count <= 0
pio_fd_store(t) ==
  /\ At(t, "fd_store")
  /\ IF ctx[t].t.has_rx
     THEN /\ GetRx(SpiBuf.data)
          /\ rxfull' = FALSE
          /\ Goes(t, [ctx[t] EXCEPT !.pc = IF ctx[t].count <= 0 THEN "xfer_status"
                                           ELSE "fd_fetch",
                                    !.oob = @ \/ RxOob])
     ELSE /\ UNCHANGED <<rx, rxbuf, rxfull>>
          /\ Goes(t, [ctx[t] EXCEPT !.pc = IF ctx[t].count <= 0 THEN "xfer_status"
                                           ELSE "fd_fetch"])
  /\ UNCHANGED <<in_use, done, tx, count, ioVars, hw_tx, rxdata, overlap_write, edmaVars>>
  /\ SetupUnchanged

\* lines 626..629: receive only, polled: the command word keeps the clock going
pio_po_issue(t) ==
  /\ At(t, "po_issue")
  /\ IF ~SpiBuf.txfull
     THEN /\ Dat1Written(ctx[t].data1_reg_val)
          /\ WritesRegister(t)
          /\ Goes(t, [ctx[t] EXCEPT !.pc = "po_wait", !.words = @ + 1])
     ELSE /\ UNCHANGED <<SPIDAT1, hw_tx, overlap_write>>
          /\ Goes(t, [ctx[t] EXCEPT !.pc = "po_wait"])
  /\ rxfull' = FALSE
  /\ UNCHANGED <<flightVars, SPIGCR1, SPIPC0, SPIDEF, SPIINT, SPIDELAY, rxdata, rxbuf, edmaVars>>
  /\ SetupUnchanged

\* lines 635..642: SPIFLG and SPIBUF are read, the word stored, count decremented
pio_po_store(t) ==
  /\ At(t, "po_store")
  /\ GetRx(SpiBuf.data)
  /\ rxfull' = FALSE
  /\ Goes(t, [ctx[t] EXCEPT !.pc = IF ctx[t].count - 1 <= 0 THEN "xfer_status"
                                   ELSE "po_issue",
                            !.count = @ - 1, !.oob = @ \/ RxOob])
  /\ UNCHANGED <<in_use, done, tx, count, ioVars, hw_tx, rxdata, overlap_write, edmaVars>>
  /\ SetupUnchanged

\* data1_reg_val & 0x0ffcffff: CSHOLD and the CSNR bits 0 and 1 cleared
ParkCmd(cmd) == [cmd EXCEPT !.cshold = FALSE, !.csnr = @ \ {0, 1}]

\* lines 647..661: receive only, by interrupt: for each i < davinci_spi->count
\* the interrupts are enabled and the command word is written; after the
\* loop the parked command word is written
pio_ir_issue(t) ==
  /\ At(t, "ir_issue")
  /\ IF ctx[t].i < count
     THEN /\ SPIINT' = set_io_bits(SPIINT, {"BITERR_INTR", "OVRRUN_INTR", "RX_INTR"})
          /\ Dat1Written(ctx[t].data1_reg_val)
          /\ Goes(t, [ctx[t] EXCEPT !.pc = "ir_wait", !.words = @ + 1])
     ELSE /\ UNCHANGED SPIINT
          /\ Dat1Written(ParkCmd(ctx[t].data1_reg_val))
          /\ Goes(t, [ctx[t] EXCEPT !.pc = "xfer_status"])
  /\ WritesRegister(t)
  /\ UNCHANGED <<flightVars, SPIGCR1, SPIPC0, SPIDEF, SPIDELAY, rxfull, rxdata, rxbuf, edmaVars>>
  /\ SetupUnchanged

\* lines 656..658: while (ioread32(SPIINT) & SPIINT_RX_INTR) cpu_relax();
pio_ir_wait(t) ==
  /\ At(t, "ir_wait")
  /\ "RX_INTR" \notin SPIINT
  /\ Goes(t, [ctx[t] EXCEPT !.pc = "ir_issue", !.i = @ + 1])
  /\ UNCHANGED <<flightVars, ioVars, hwVars, rxbuf, overlap_write, edmaVars>>
  /\ SetupUnchanged

\* the context the interrupt handler of the controller runs in
IrqContext == 2

\* the handler is running: it interrupted the worker, which does not run
\* until the handler returns
IrqRunning == ctx[IrqContext].pc = "irq_loop"

\* lines 925..930: the body of the handler's loop: SPIBUF is read and stored
\* by get_rx, then SPIINT is written with ~(SPIINT_RX_INTR | SPIINT_TX_INTR);
\* the handler goes on to read SPIFLG again
irq_capture ==
  /\ GetRx(SpiBuf.data)
  /\ rxfull' = FALSE
  /\ SPIINT' = SPIINT_ALL \ {"RX_INTR", "TX_INTR"}
  /\ ctx' = [c \in Threads |->
              IF c = IrqContext THEN [IdleCtx EXCEPT !.pc = "irq_loop", !.op = "irq"]
              ELSE IF c = rx.buf THEN [ctx[c] EXCEPT !.oob = @ \/ RxOob]
              ELSE ctx[c]]
  /\ UNCHANGED <<in_use, done, tx, count, SPIGCR1, SPIPC0, SPIDEF, SPIDELAY, SPIDAT1,
                 hw_tx, rxdata, overlap_write, edmaVars>>
  /\ SetupUnchanged

\* davinci_spi_irq: the interrupt is raised when SPIFLG shows a received word
\* and the receive interrupt is enabled; the handler finds the flag set and
\* runs the body of its loop
davinci_spi_irq ==
  /\ ~IrqRunning
  /\ "RX_INTR" \in SPIINT
  /\ rxfull
  /\ irq_capture

\* lines 934, 922: int_status = ioread32(SPIFLG) at the end of the body: the
\* loop runs again while the flag of a received word is set, whatever SPIINT
\* enables, and the handler returns when it is clear
irq_loop ==
  /\ IrqRunning
  /\ IF rxfull
     THEN irq_capture
     ELSE /\ Goes(IrqContext, [ctx[IrqContext] EXCEPT !.pc = "idle"])
          /\ UNCHANGED <<flightVars, ioVars, hwVars, rxbuf, overlap_write, edmaVars>>
          /\ SetupUnchanged


\* ------------------------------------------- the end of a call, of both engines
\* the snapshots of the error bits of SPIFLG a call can read at its end
MaxFlags == 1
StatusSnapshots == {st \in SUBSET ErrFlags : Cardinality(st) <= MaxFlags}

\* a mutant: an error returns at once, past the out: label
AfterStatus_return_on_error(r) == IF r = "OK" THEN "xfer_out" ELSE "returned"

\* goto out, or falling through to it: where the call goes once ret is known
AfterStatus(r) == "xfer_out"

\* int_status = ioread32(SPIFLG); ret = davinci_spi_check_error(...);
\* on success davinci_spi->count *= conv
xfer_status(t, st) ==
  /\ At(t, "xfer_status")
  /\ \E e \in {davinci_spi_check_error(version, st)} :
       /\ Goes(t, [ctx[t] EXCEPT !.pc = AfterStatus(e.ret), !.ret = e.ret,
                                 !.hw_err = (st # {})])
       /\ count' = IF e.ret = "OK" THEN count * BytesPerWord(ctx[t].t.cs) ELSE count
  /\ UNCHANGED <<in_use, done, tx, rx, ioVars, hwVars, rxbuf, overlap_write,
                 edmaVars>>
  /\ SetupUnchanged

\* out: davinci_spi->in_use = false;
xfer_out(t) ==
  /\ At(t, "xfer_out")
  /\ in_use' = FALSE
  /\ Goes(t, [ctx[t] EXCEPT !.pc = "xfer_complete"])
  /\ UNCHANGED <<done, tx, rx, count, ioVars, hwVars, rxbuf, overlap_write,
                 edmaVars>>
  /\ SetupUnchanged

\* complete(&davinci_spi->done); return (ret != 0) ? ret : t->len;
xfer_complete(t) ==
  /\ At(t, "xfer_complete")
  /\ done' = done + 1
  /\ Goes(t, [ctx[t] EXCEPT !.pc = "returned", !.signalled = TRUE])
  /\ UNCHANGED <<in_use, tx, rx, count, ioVars, hwVars, rxbuf, overlap_write,
                 edmaVars>>
  /\ SetupUnchanged

\* the value a call that succeeded returns: t->len
ReturnedLen(t) == ctx[t].t.len

\* -------------------------------------------------------- davinci_spi_bufs_dma
\* the element type of the DMA: word_len = conv * 8 must be at most 32
DmaDataType(conv) ==
  IF conv * 8 <= 8 THEN "S8" ELSE IF conv * 8 <= 16 THEN "S16"
  ELSE IF conv * 8 <= 32 THEN "S32" ELSE "none"

\* lines 711..734: entry of the call by caller t with the descriptor d; both
\* completions of the pair are initialised; a word too long for the DMA
\* returns -EINVAL before the registers are prepared
bufs_dma_entry(t, d) ==
  /\ use_dma
  /\ BindBuffers(t, d)
  /\ dma_completion' = [dma_completion EXCEPT ![d.cs] = [rx |-> 0, tx |-> 0]]
  /\ IF DmaDataType(BytesPerWord(d.cs)) = "none"
     THEN /\ UNCHANGED <<SPIPC0, SPIGCR1, overlap_write>>
          /\ Goes(t, [IdleCtx EXCEPT !.pc = "returned", !.t = d, !.ret = "EINVAL",
                                     !.busy_entry = in_use])
     ELSE /\ davinci_spi_bufs_prep(t, d)
          /\ Goes(t, [IdleCtx EXCEPT !.pc = "dma_claim", !.t = d, !.busy_entry = in_use])
  /\ UNCHANGED <<in_use, done, SPIDEF, SPIINT, SPIDELAY, SPIDAT1, hwVars,
                 edma_state, mapped>>
  /\ CallUnchanged

\* lines 739..759: the delays, the chip-select default, every interrupt
\* disabled, and the command word written while the controller is disabled
dma_regs(t) ==
  /\ At(t, "dma_regs")
  /\ SPIDELAY' = [c2tdelay |-> pdata.c2tdelay, t2cdelay |-> pdata.t2cdelay]
  /\ SPIDEF' = clear_io_bits(SPIDEF, {ctx[t].t.cs})
  /\ SPIINT' = clear_io_bits(SPIINT, SPIINT_MASKALL)
  /\ SPIDAT1' = BaseCmd(ctx[t].t.cs)
  /\ SPIGCR1' = set_io_bits(SPIGCR1, {"SPIENA"})
  /\ Goes(t, [ctx[t] EXCEPT !.pc = "dma_drain", !.count = count,
                            !.data1_reg_val = BaseCmd(ctx[t].t.cs)])
  /\ WritesRegister(t)
  /\ UNCHANGED <<flightVars, SPIPC0, hwVars, rxbuf, edmaVars>>
  /\ SetupUnchanged

\* lines 762..764: the receive buffer is read until it is empty
dma_drain(t) ==
  /\ At(t, "dma_drain")
  /\ IF ~SpiBuf.rxempty
     THEN rxfull' = FALSE /\ UNCHANGED ctx
     ELSE UNCHANGED rxfull /\ Goes(t, [ctx[t] EXCEPT !.pc = "dma_map_tx"])
  /\ UNCHANGED <<flightVars, ioVars, hw_tx, rxdata, rxbuf, overlap_write,
                 edmaVars>>
  /\ SetupUnchanged


\* an EDMA call on the channel of handle h (no channel when h is not a handle)
EdmaSet(state, h, v) == IF h \in DOMAIN state THEN [state EXCEPT ![h] = v] ELSE state

\* lines 767..796: the transmit buffer (the driver's tmp_buf when the caller
\* gives none) is mapped and the TX channel programmed; a mapping that fails
\* ends the call with -ENOMEM
dma_map_tx(t, ok) ==
  /\ At(t, "dma_map_tx")
  /\ IF ~ok
     THEN /\ Goes(t, [ctx[t] EXCEPT !.pc = "xfer_out", !.ret = "ENOMEM"])
          /\ UNCHANGED <<edma_state, mapped>>
     ELSE /\ mapped' = mapped \cup {IF ctx[t].t.has_tx THEN "tx_buf" ELSE "tmp_buf"}
          /\ edma_state' = EdmaSet(edma_state, dma_channels[ctx[t].t.cs].dma_tx_channel,
                                   "programmed")
          /\ Goes(t, [ctx[t] EXCEPT !.pc = IF ctx[t].t.has_rx THEN "dma_map_rx"
                                           ELSE "dma_start",
                                    !.temp_count = IF ctx[t].t.has_tx THEN ctx[t].count
                                                   ELSE ctx[t].count + 1])
  /\ UNCHANGED <<flightVars, ioVars, hwVars, rxbuf, overlap_write,
                 dma_completion>>
  /\ SetupUnchanged

\* lines 798..822: the command word is written to start the transaction, the
\* receive buffer is mapped and the RX channel programmed; when the mapping
\* fails the caller's transmit buffer is unmapped and the call ends with -ENOMEM
dma_map_rx(t, ok) ==
  /\ At(t, "dma_map_rx")
  /\ Dat1Written(ctx[t].data1_reg_val)
  /\ WritesRegister(t)
  /\ IF ~ok
     THEN /\ mapped' = IF ctx[t].t.has_tx THEN mapped \ {"tx_buf"} ELSE mapped
          /\ Goes(t, [ctx[t] EXCEPT !.pc = "xfer_out", !.ret = "ENOMEM"])
          /\ UNCHANGED edma_state
     ELSE /\ mapped' = mapped \cup {"rx_buf"}
          /\ edma_state' = EdmaSet(edma_state, dma_channels[ctx[t].t.cs].dma_rx_channel,
                                   "programmed")
          /\ Goes(t, [ctx[t] EXCEPT !.pc = "dma_start"])
  /\ UNCHANGED <<flightVars, SPIGCR1, SPIPC0, SPIDEF, SPIINT, SPIDELAY, rxfull, rxdata,
                 rxbuf, dma_completion>>
  /\ SetupUnchanged

\* lines 824..831: edma_start of the TX channel, of the RX channel when there
\* is a receive buffer, and davinci_spi_set_dma_req(spi, 1)
dma_start(t) ==
  /\ At(t, "dma_start")
  /\ \E d \in {dma_channels[ctx[t].t.cs]} :
       edma_state' =
         IF ctx[t].t.has_rx
         THEN EdmaSet(EdmaSet(edma_state, d.dma_tx_channel, "started"),
                      d.dma_rx_channel, "started")
         ELSE EdmaSet(edma_state, d.dma_tx_channel, "started")
  /\ SPIINT' = set_io_bits(SPIINT, {"DMA_REQ_EN"})
  /\ WritesRegister(t)
  /\ Goes(t, [ctx[t] EXCEPT !.pc = "dma_wait_tx", !.started = TRUE])
  /\ UNCHANGED <<flightVars, SPIGCR1, SPIPC0, SPIDEF, SPIDELAY, SPIDAT1, hwVars, rxbuf, dma_completion, mapped>>
  /\ SetupUnchanged

\* lines 833..839: wait_for_completion_interruptible on the TX completion when
\* there is a transmit buffer, then on the RX completion when there is a
\* receive buffer (the bitbang worker is a kernel thread: no signal ends a wait)
dma_wait(t) ==
  /\ At(t, "dma_wait_tx") \/ At(t, "dma_wait_rx")
  /\ \E cs \in {ctx[t].t.cs} :
       IF At(t, "dma_wait_tx")
       THEN /\ ctx[t].t.has_tx => dma_completion[cs].tx > 0
            /\ dma_completion' = IF ctx[t].t.has_tx
                                 THEN [dma_completion EXCEPT ![cs].tx = @ - 1]
                                 ELSE dma_completion
            /\ Goes(t, [ctx[t] EXCEPT !.pc = "dma_wait_rx"])
       ELSE /\ ctx[t].t.has_rx => dma_completion[cs].rx > 0
            /\ dma_completion' = IF ctx[t].t.has_rx
                                 THEN [dma_completion EXCEPT ![cs].rx = @ - 1]
                                 ELSE dma_completion
            /\ Goes(t, [ctx[t] EXCEPT !.pc = "dma_unmap"])
  /\ UNCHANGED <<flightVars, ioVars, hwVars, rxbuf, overlap_write,
                 edma_state, mapped>>
  /\ SetupUnchanged

\* lines 841..844: the transmit mapping and the receive mapping are released
dma_unmap(t) ==
  /\ At(t, "dma_unmap")
  /\ mapped' = (mapped \ {IF ctx[t].t.has_tx THEN "tx_buf" ELSE "tmp_buf"})
                 \ (IF ctx[t].t.has_rx THEN {"rx_buf"} ELSE {})
  /\ Goes(t, [ctx[t] EXCEPT !.pc = "xfer_status", !.words = ctx[t].count])
  /\ UNCHANGED <<flightVars, ioVars, hwVars, rxbuf, overlap_write,
                 dma_completion, edma_state>>
  /\ SetupUnchanged

\* davinci_spi_dma_rx_callback / davinci_spi_dma_tx_callback of chip-select cs
\* (dir "rx" or "tx"), called by the channel controller for a started channel:
\* the channel is stopped (and cleaned unless ch_status is DMA_COMPLETE), the
\* completion signalled, and then the DMA request disabled
davinci_spi_dma_callback(cs, dir, ch_status) ==
  /\ \E h \in {IF dir = "rx" THEN dma_channels[cs].dma_rx_channel
               ELSE dma_channels[cs].dma_tx_channel} :
       /\ h \in DOMAIN edma_state
       /\ edma_state[h] = "started"
       /\ edma_state' = [edma_state EXCEPT ![h] = IF ch_status = "DMA_COMPLETE"
                                                  THEN "stopped" ELSE "cleaned"]
  /\ dma_completion' = [dma_completion EXCEPT ![cs][dir] = @ + 1]
  /\ SPIINT' = clear_io_bits(SPIINT, {"DMA_REQ_EN"})
  /\ UNCHANGED <<flightVars, SPIGCR1, SPIPC0, SPIDEF, SPIDELAY, SPIDAT1, hwVars,
                 callerVars, mapped>>
  /\ SetupUnchanged

\* ------------------------------------------- davinci_spi_cpufreq_transition
\* the notifier is called by context n with val CPUFREQ_PRECHANGE or
\* CPUFREQ_POSTCHANGE: a PRECHANGE that reads in_use set waits for the
\* completion 'done' (.i: the calls made when it read in_use), a POSTCHANGE
\* goes on to davinci_spi_calc_clk_div
davinci_spi_cpufreq_transition(n, val) ==
  /\ MayCall(n)
  /\ Goes(n, [IdleCtx EXCEPT
                !.op = val,
                !.pc = IF val = "CPUFREQ_PRECHANGE"
                       THEN (IF in_use THEN "freq_wait" ELSE "returned")
                       ELSE "freq_post",
                !.busy_entry = in_use,
                !.i = ncalls])
  /\ UNCHANGED <<flightVars, ioVars, hwVars, rxbuf, overlap_write, edmaVars>>
  /\ SetupUnchanged

\* wait_for_completion(&davinci_spi->done) returns once the completion has
\* been signalled, and consumes the signal
cpufreq_wait(n) ==
  /\ At(n, "freq_wait")
  /\ done > 0
  /\ done' = done - 1
  /\ Goes(n, [ctx[n] EXCEPT !.pc = "returned"])
  /\ UNCHANGED <<in_use, tx, rx, count, ioVars, hwVars, rxbuf, overlap_write, edmaVars>>
  /\ SetupUnchanged

\* the clock rates clk_get_rate returns after a frequency transition
NotifyClkRates == {75000000, 150000000}

\* CPUFREQ_POSTCHANGE: davinci_spi_calc_clk_div(davinci_spi) with the new
\* rate of the clock writes the prescale field of SPIFMT[cs_num]
cpufreq_postchange(n, rate) ==
  /\ At(n, "freq_post")
  /\ speed > 0
  /\ clk_rate' = rate
  /\ SPIFMT' = [SPIFMT EXCEPT ![cs_num] = FmtWithPrescale(@, CalcPrescale(rate, speed))]
  /\ Goes(n, [ctx[n] EXCEPT !.pc = "returned", !.busy_entry = in_use])
  /\ UNCHANGED <<version, pdata, use_dma, clk_enabled, ctlVars, devVars, dmaVars,
                 callVars, errVars>>
  /\ UNCHANGED <<flightVars, ioVars, hwVars, rxbuf, overlap_write, edmaVars>>

\* ------------------------------------- davinci_spi_suspend, davinci_spi_resume
\* lines 1200..1208: the request of context n waits for 'done' when it reads
\* in_use set
davinci_spi_suspend(n) ==
  /\ MayCall(n)
  /\ Goes(n, [IdleCtx EXCEPT !.op = "suspend",
                             !.pc = IF in_use THEN "susp_wait" ELSE "susp_disable",
                             !.busy_entry = in_use,
                             !.i = ncalls])
  /\ UNCHANGED <<flightVars, ioVars, hwVars, rxbuf, overlap_write, edmaVars>>
  /\ SetupUnchanged

\* wait_for_completion_timeout(&davinci_spi->done, 5000 ms): a signalled
\* completion is consumed; while there is none the wait can time out, and
\* the request returns -ETIMEDOUT
suspend_wait(n, timed_out) ==
  /\ At(n, "susp_wait")
  /\ IF done > 0
     THEN /\ done' = done - 1
          /\ Goes(n, [ctx[n] EXCEPT !.pc = "susp_disable"])
     ELSE /\ timed_out
          /\ UNCHANGED done
          /\ Goes(n, [ctx[n] EXCEPT !.pc = "returned", !.ret = "ETIMEDOUT"])
  /\ UNCHANGED <<in_use, tx, rx, count, ioVars, hwVars, rxbuf, overlap_write, edmaVars>>
  /\ SetupUnchanged

\* lines 1211..1215: the controller is disabled and its clock stopped
suspend_disable(n) ==
  /\ At(n, "susp_disable")
  /\ SPIGCR1' = clear_io_bits(SPIGCR1, {"SPIENA"})
  /\ clk_enabled' = FALSE
  /\ Goes(n, [ctx[n] EXCEPT !.pc = "returned", !.ret = "OK"])
  /\ UNCHANGED <<version, clk_rate, pdata, use_dma, ctlVars, devVars, regVars, dmaVars,
                 callVars, errVars>>
  /\ UNCHANGED <<flightVars, SPIPC0, SPIDEF, SPIINT, SPIDELAY, SPIDAT1, hwVars, rxbuf,
                 overlap_write, edmaVars>>

\* davinci_spi_resume: the clock is started and the controller enabled
davinci_spi_resume(n) ==
  /\ MayCall(n)
  /\ ctx[n].op = "suspend"
  /\ ~clk_enabled
  /\ clk_enabled' = TRUE
  /\ SPIGCR1' = set_io_bits(SPIGCR1, {"SPIENA"})
  /\ Goes(n, [IdleCtx EXCEPT !.op = "resume", !.pc = "returned"])
  /\ UNCHANGED <<version, clk_rate, pdata, use_dma, ctlVars, devVars, regVars, dmaVars,
                 callVars, errVars>>
  /\ UNCHANGED <<flightVars, SPIPC0, SPIDEF, SPIINT, SPIDELAY, SPIDAT1, hwVars, rxbuf,
                 overlap_write, edmaVars>>


\* ------------------------------------------------------------ initial states
\* platform data: the fields of struct davinci_spi_platform_data the driver reads
PdataSet ==
  {[wdelay |-> 0, odd_parity |-> FALSE, parity_enable |-> FALSE,
    wait_enable |-> FALSE, timer_disable |-> FALSE,
    poll_mode |-> TRUE, cs_hold |-> FALSE, c2tdelay |-> 0, t2cdelay |-> 0],
   [wdelay |-> 5, odd_parity |-> TRUE, parity_enable |-> TRUE,
    wait_enable |-> TRUE, timer_disable |-> TRUE,
    poll_mode |-> FALSE, cs_hold |-> TRUE, c2tdelay |-> 8, t2cdelay |-> 8]}

\* the controller as davinci_spi_probe leaves it
ProbeState ==
  /\ get_rx = "u8"
  /\ get_tx = "u8"
  /\ slave = [c \in CS |-> [bytes_per_word |-> 0, cmd_to_write |-> 0]]
  /\ dma_channels = [c \in CS |-> [dma_rx_channel |-> NO_CHANNEL,
                                    dma_tx_channel |-> NO_CHANNEL]]
  /\ spi_dev = [c \in CS |-> [bits_per_word |-> 0, max_speed_hz |-> 0, mode |-> {},
                               present |-> FALSE, registered |-> FALSE]]
  /\ edma_owner = [h \in {dma_rx_sync_dev, dma_tx_sync_dev} |-> NO_CHANNEL]
  /\ edma_bad_free = [c \in CS |-> {}]
  /\ ever_paired = [c \in CS |-> FALSE]
  /\ req_ret = "none"

\* the controller and its callers before the first transfer: the clock
\* enabled, in_use clear, the completion initialised, nothing on the wire
XferIdle ==
  /\ clk_enabled = TRUE
  /\ in_use = FALSE
  /\ done = 0
  /\ tx = Ptr(0, 0)
  /\ rx = Ptr(0, 0)
  /\ count = 0
  /\ SPIPC0 = {}
  /\ SPIDEF = {}
  /\ SPIINT = {}
  /\ SPIDELAY = [c2tdelay |-> 0, t2cdelay |-> 0]
  /\ SPIDAT1 = CmdWord(FALSE, {}, 0)
  /\ hw_tx = <<>>
  /\ rxfull = FALSE
  /\ rxdata = 0
  /\ ctx = [t \in Threads |-> IdleCtx]
  /\ rxbuf = [t \in Threads |-> <<>>]
  /\ dma_completion = [c \in CS |-> [rx |-> 0, tx |-> 0]]
  /\ edma_state = [h \in {dma_rx_sync_dev, dma_tx_sync_dev} |-> "idle"]
  /\ mapped = {}
  /\ overlap_write = FALSE

NoCall ==
  /\ last_op = "none"
  /\ last_cs = 0
  /\ last_ret = "OK"
  /\ wrote = {}
  /\ prescale = 0
  /\ last_width = -1
  /\ ncalls = 0

NoSnapshot ==
  /\ int_status = {}
  /\ diag = ""
  /\ prev_status = {}
  /\ prev_ret = "none"

\* --------------------------------------- the clock divisor on its own: SpecClk
\* values of a format register before the divisor is written
FmtSamples == {{}, {0, 1, 2, 16, 17, 20}, 0..31}

InitClk ==
  /\ version = SPI_VERSION_1
  /\ clk_rate \in ClkRates
  /\ pdata \in PdataSet
  /\ use_dma = FALSE
  /\ ProbeState
  /\ speed \in HzRates
  /\ cs_num \in CS
  /\ \E f \in FmtSamples : SPIFMT = [c \in CS |-> f]
  /\ NoCall
  /\ NoSnapshot
  /\ XferIdle
  /\ SPIGCR1 = {"MASTER"}

\* davinci_spi_calc_clk_div(davinci_spi) for the bound speed and chip-select
davinci_spi_calc_clk_div ==
  /\ last_op = "none"
  /\ speed > 0
  /\ prescale' = CalcPrescale(clk_rate, speed)
  /\ SPIFMT' = [SPIFMT EXCEPT ![cs_num] = FmtWithPrescale(@, prescale')]
  /\ last_op' = "calc_clk_div"
  /\ last_cs' = cs_num
  /\ last_ret' = "OK"
  /\ wrote' = {"SPIFMT"}
  /\ UNCHANGED <<xferVars, cfgVars, ctlVars, devVars, dmaVars, errVars, last_width>>

NextClk == davinci_spi_calc_clk_div /\ UNCHANGED ncalls

SpecClk == InitClk /\ [][NextClk]_vars

\* ------------------------------------ the error classifier on its own: SpecErr
InitErr ==
  /\ version \in Versions
  /\ clk_rate = 150000000
  /\ pdata = CHOOSE p \in PdataSet : p.wdelay = 0
  /\ use_dma = FALSE
  /\ ProbeState
  /\ speed = 0
  /\ cs_num = 0
  /\ SPIFMT = [c \in CS |-> {}]
  /\ NoCall
  /\ NoSnapshot
  /\ XferIdle
  /\ SPIGCR1 = {"MASTER"}

\* one call of davinci_spi_check_error on the snapshot st of SPIFLG; a run
\* classifies two snapshots, so that their outcomes can be compared
CheckError(st) ==
  /\ prev_ret = "none"
  /\ prev_status' = int_status
  /\ prev_ret' = IF last_op = "check_error" THEN last_ret ELSE "none"
  /\ int_status' = st
  /\ last_ret' = davinci_spi_check_error(version, st).ret
  /\ diag' = davinci_spi_check_error(version, st).diag
  /\ last_op' = "check_error"
  /\ UNCHANGED <<xferVars, cfgVars, ctlVars, devVars, regVars, dmaVars, last_cs, wrote, prescale,
               last_width>>

NextErr == \E st \in SUBSET ErrFlags : CheckError(st) /\ UNCHANGED ncalls

SpecErr == InitErr /\ [][NextErr]_vars

\* ------------------------------- setup and negotiation without DMA: SpecSetup
SetupRates == {599999, 1000000, 50000001}
TransferRates == {0, 100000}
SetupModes == {{}, {"SPI_CPHA", "SPI_CPOL", "SPI_LSB_FIRST"}}

InitSetup ==
  /\ version \in Versions
  /\ clk_rate = 150000000
  /\ pdata = CHOOSE p \in PdataSet : p.wdelay # 0
  /\ use_dma = FALSE
  /\ ProbeState
  /\ speed = 0
  /\ cs_num = 0
  /\ SPIFMT = [c \in CS |-> {}]
  /\ NoCall
  /\ NoSnapshot
  /\ XferIdle
  /\ SPIGCR1 = {"MASTER"}

NextSetup ==
  \/ \E bits \in 0..MaxWidth, hz \in SetupRates, mode \in SetupModes :
       Tick /\ davinci_spi_setup(0, bits, hz, mode, TRUE, TRUE)
  \/ \E bits \in 0..MaxWidth, hz \in TransferRates :
       Tick /\ davinci_spi_setup_transfer(0, bits, hz)
  \/ Tick /\ davinci_spi_cleanup(0)

SpecSetup == InitSetup /\ [][NextSetup]_vars

\* ------------------------------------- the DMA channel pairs: SpecDma
DmaWidths == {8, 17}
DmaRates == {1000000, 50000001}

InitDma ==
  /\ version = SPI_VERSION_2
  /\ clk_rate = 150000000
  /\ pdata = CHOOSE p \in PdataSet : p.wdelay = 0
  /\ use_dma = TRUE
  /\ ProbeState
  /\ speed = 0
  /\ cs_num = 0
  /\ SPIFMT = [c \in CS |-> {}]
  /\ NoCall
  /\ NoSnapshot
  /\ XferIdle
  /\ SPIGCR1 = {"MASTER"}

NextDma ==
  \/ \E cs \in CS, bits \in DmaWidths, hz \in DmaRates, rx_grant, tx_grant \in BOOL :
       davinci_spi_setup(cs, bits, hz, {}, rx_grant, tx_grant) /\ UNCHANGED ncalls
  \/ \E cs \in CS : davinci_spi_cleanup(cs) /\ UNCHANGED ncalls

SpecDma == InitDma /\ [][NextDma]_vars

\* ------------------------------------------- the transfer engines: Spec
\* the descriptors of length len a caller can give on chip-select cs: a
\* transmit buffer, a receive buffer, or both
DescriptorsOf(cs, len) ==
  {Xfer(cs, len, TRUE, has_rx, TxPattern(len)) : has_rx \in BOOL}
    \cup {Xfer(cs, len, FALSE, TRUE, <<>>)}

Descriptors ==
  UNION {DescriptorsOf(cs, len) : cs \in {c \in CS : spi_dev[c].registered},
                                   len \in 0..MaxLen}

\* the word widths of the devices that transfer
XferWidths == {8, 16}

\* the controller after davinci_spi_probe and a davinci_spi_setup that
\* succeeded for the device on chip-select 0, of word width w and mode m
AfterSetup(w, m) ==
  /\ get_rx = WidthAccessor(w)
  /\ get_tx = WidthAccessor(w)
  /\ slave = [c \in CS |-> [bytes_per_word |-> IF c = 0 THEN AccessorBytes(WidthAccessor(w))
                                                ELSE 0,
                             cmd_to_write |-> 0]]
  /\ spi_dev = [c \in CS |-> [bits_per_word |-> IF c = 0 THEN w ELSE 0,
                               max_speed_hz |-> IF c = 0 THEN 1000000 ELSE 0,
                               mode |-> IF c = 0 THEN m ELSE {},
                               present |-> c = 0, registered |-> c = 0]]
  /\ dma_channels = [c \in CS |->
       [dma_rx_channel |-> IF use_dma /\ c = 0 THEN dma_rx_sync_dev ELSE NO_CHANNEL,
        dma_tx_channel |-> IF use_dma /\ c = 0 THEN dma_tx_sync_dev ELSE NO_CHANNEL]]
  /\ edma_owner = [h \in {dma_rx_sync_dev, dma_tx_sync_dev} |->
                     IF use_dma THEN 0 ELSE NO_CHANNEL]
  /\ edma_bad_free = [c \in CS |-> {}]
  /\ ever_paired = [c \in CS |-> use_dma /\ c = 0]
  /\ req_ret = IF use_dma THEN "paired" ELSE "none"
  /\ speed = 1000000
  /\ cs_num = 0
  /\ SPIFMT = [c \in CS |-> IF c = 0
                            THEN FmtAfterSetupTransfer(FmtAfterSetupMode({}, m), w, 1000000)
                            ELSE {}]

Init ==
  /\ version \in {v \in Versions : v >= SPI_VERSION_2}
  /\ clk_rate = 150000000
  /\ pdata \in PdataSet
  /\ use_dma \in BOOL
  /\ \E w \in XferWidths, m \in {{}, {"SPI_LOOP"}} : AfterSetup(w, m)
  /\ NoCall
  /\ NoSnapshot
  /\ XferIdle
  /\ SPIGCR1 \in {{"MASTER"}, {"MASTER", "SPIENA"}}

\* the steps of the call of caller t in davinci_spi_bufs_pio
PioSteps(t) ==
  \/ xfer_claim(t)
  \/ pio_enable(t)
  \/ pio_drain(t)
  \/ pio_fd_fetch(t)
  \/ pio_wait_rx(t)
  \/ pio_fd_store(t)
  \/ \E st \in StatusSnapshots : xfer_status(t, st)
  \/ xfer_out(t)
  \/ xfer_complete(t)

\* one bitbang worker calls the engines and the chip-select, one call at a
\* time, MaxCalls calls in a run; the controller may have been enabled by an
\* earlier transfer; the interrupt handler interrupts the worker, which
\* runs again when the handler has returned; the callbacks of the channel
\* controller are interrupt handlers too
Next ==
  \/ \E d \in Descriptors : ~IrqRunning /\ Tick /\ bufs_pio_entry(1, d)
  \/ \E d \in Descriptors : ~IrqRunning /\ Tick /\ bufs_dma_entry(1, d)
  \/ ~IrqRunning /\ PioSteps(1)
  \/ ~IrqRunning /\ pio_po_issue(1)
  \/ ~IrqRunning /\ pio_po_store(1)
  \/ ~IrqRunning /\ pio_ir_issue(1)
  \/ ~IrqRunning /\ pio_ir_wait(1)
  \/ ~IrqRunning /\ dma_regs(1)
  \/ ~IrqRunning /\ dma_drain(1)
  \/ \E ok \in BOOL : ~IrqRunning /\ dma_map_tx(1, ok)
  \/ \E ok \in BOOL : ~IrqRunning /\ dma_map_rx(1, ok)
  \/ ~IrqRunning /\ dma_start(1)
  \/ ~IrqRunning /\ dma_wait(1)
  \/ ~IrqRunning /\ dma_unmap(1)
  \/ \E value \in {"BITBANG_CS_ACTIVE", "BITBANG_CS_INACTIVE"} :
       ~IrqRunning /\ Tick /\ davinci_spi_chipselect(1, value)
  \/ ~IrqRunning /\ chipselect_drain(1)
  \/ davinci_spi_irq
  \/ irq_loop
  \/ \E cs \in CS, dir \in {"rx", "tx"}, ch_status \in {"DMA_COMPLETE", "DMA_CC_ERROR"} :
       ~IrqRunning /\ davinci_spi_dma_callback(cs, dir, ch_status)
  \/ HwTransfer

Spec == Init /\ [][Next]_vars

\* ------------------ the PIO engine with a hardware that answers: SpecPioFair
\* the controller without DMA
InitPio ==
  /\ version \in {v \in Versions : v >= SPI_VERSION_2}
  /\ clk_rate = 150000000
  /\ pdata \in PdataSet
  /\ use_dma = FALSE
  /\ \E w \in XferWidths, m \in {{}, {"SPI_LOOP"}} : AfterSetup(w, m)
  /\ NoCall
  /\ NoSnapshot
  /\ XferIdle
  /\ SPIGCR1 \in {{"MASTER"}, {"MASTER", "SPIENA"}}

\* the steps the processor executes for the worker (caller 1): the code of
\* davinci_spi_bufs_pio and of davinci_spi_chipselect after their entry
WorkerRuns ==
  /\ ~IrqRunning
  /\ \/ PioSteps(1)
     \/ pio_po_issue(1)
     \/ pio_po_store(1)
     \/ pio_ir_issue(1)
     \/ pio_ir_wait(1)
     \/ chipselect_drain(1)

\* the interrupt handler, from its entry to its return
HandlerRuns == davinci_spi_irq \/ irq_loop

NextPio ==
  \/ \E d \in Descriptors : ~IrqRunning /\ Tick /\ bufs_pio_entry(1, d)
  \/ \E value \in {"BITBANG_CS_ACTIVE", "BITBANG_CS_INACTIVE"} :
       ~IrqRunning /\ Tick /\ davinci_spi_chipselect(1, value)
  \/ ~IrqRunning /\ PioSteps(1)
  \/ ~IrqRunning /\ pio_po_issue(1)
  \/ ~IrqRunning /\ pio_po_store(1)
  \/ ~IrqRunning /\ pio_ir_issue(1)
  \/ ~IrqRunning /\ pio_ir_wait(1)
  \/ ~IrqRunning /\ chipselect_drain(1)
  \/ davinci_spi_irq
  \/ irq_loop
  \/ HwTransfer

\* the processor keeps executing the code it is in, and the serial engine
\* shifts out every word pending in the transmit buffer: the transmit-full
\* flag is cleared, and a received word presented, for every word written
SpecPioFair ==
  /\ InitPio
  /\ [][NextPio]_vars
  /\ WF_vars(WorkerRuns)
  /\ WF_vars(HandlerRuns)
  /\ WF_vars(HwTransfer)

\* --------------------- calls that overlap on one controller: SpecOverlap
\* two callers, each sending one byte by davinci_spi_bufs_pio, with nothing
\* that keeps the second call from beginning during the first
OverlapDescriptors == {Xfer(0, 1, TRUE, FALSE, TxPattern(1))}

InitOverlap ==
  /\ version = SPI_VERSION_2
  /\ clk_rate = 150000000
  /\ pdata = CHOOSE p \in PdataSet : p.poll_mode
  /\ use_dma = FALSE
  /\ AfterSetup(8, {"SPI_LOOP"})
  /\ NoCall
  /\ NoSnapshot
  /\ XferIdle
  /\ SPIGCR1 = {"MASTER"}

NextOverlap ==
  \/ \E t \in Threads, d \in OverlapDescriptors :
       bufs_pio_entry(t, d) /\ UNCHANGED ncalls
  \/ \E t \in Threads : PioSteps(t)
  \/ HwTransfer

SpecOverlap == InitOverlap /\ [][NextOverlap]_vars

\* ------------- notifications and power transitions during transfers: SpecNotify
\* the transfers of the worker: one or two bytes sent, with or without a
\* receive buffer
NotifyDescriptors ==
  {Xfer(0, len, TRUE, has_rx, TxPattern(len)) : len \in 1..2, has_rx \in BOOL}

InitNotify ==
  /\ version = SPI_VERSION_2
  /\ clk_rate = 150000000
  /\ pdata = CHOOSE p \in PdataSet : p.poll_mode
  /\ use_dma = FALSE
  /\ AfterSetup(8, {"SPI_LOOP"})
  /\ NoCall
  /\ NoSnapshot
  /\ XferIdle
  /\ SPIGCR1 = {"MASTER"}

\* the bitbang worker (caller 1) makes MaxCalls transfers by
\* davinci_spi_bufs_pio while the cpufreq core and the power management core
\* (context 2) call the notifier, davinci_spi_suspend and davinci_spi_resume
NextNotify ==
  \/ \E d \in NotifyDescriptors : Tick /\ bufs_pio_entry(1, d)
  \/ PioSteps(1)
  \/ HwTransfer
  \/ \E val \in {"CPUFREQ_PRECHANGE", "CPUFREQ_POSTCHANGE"} :
       davinci_spi_cpufreq_transition(2, val)
  \/ cpufreq_wait(2)
  \/ \E rate \in NotifyClkRates : cpufreq_postchange(2, rate)
  \/ davinci_spi_suspend(2)
  \/ \E timed_out \in BOOL : suspend_wait(2, timed_out)
  \/ suspend_disable(2)
  \/ davinci_spi_resume(2)

SpecNotify == InitNotify /\ [][NextNotify]_vars

\* ----------------------- setup, then one transfer by PIO: SpecEndToEnd
\* the devices set up: word width, rate and mode
EndToEndWidths == {8, 16}
EndToEndRates == {600000, 1000000}
EndToEndModes == {{}, {"SPI_LOOP"}}

\* the transfers: two bytes sent, with or without a receive buffer
EndToEndDescriptors ==
  {Xfer(0, 2, TRUE, has_rx, buf) : has_rx \in BOOL, buf \in {<<18, 52>>, <<52, 18>>}}

InitEndToEnd ==
  /\ version \in Versions
  /\ clk_rate = 150000000
  /\ pdata \in PdataSet
  /\ use_dma = FALSE
  /\ ProbeState
  /\ speed = 0
  /\ cs_num = 0
  /\ SPIFMT = [c \in CS |-> {}]
  /\ NoCall
  /\ NoSnapshot
  /\ XferIdle
  /\ SPIGCR1 = {"MASTER"}

\* davinci_spi_setup of the device on chip-select 0 after the probe, then
\* one call of davinci_spi_bufs_pio
NextEndToEnd ==
  \/ \E bits \in EndToEndWidths, hz \in EndToEndRates, mode \in EndToEndModes :
       /\ last_op = "none"
       /\ davinci_spi_setup(0, bits, hz, mode, TRUE, TRUE)
       /\ UNCHANGED ncalls
  \/ \E d \in EndToEndDescriptors :
       /\ last_op = "setup"
       /\ ctx[1].pc = "idle"
       /\ bufs_pio_entry(1, d)
       /\ UNCHANGED ncalls
  \/ PioSteps(1)
  \/ HwTransfer

SpecEndToEnd == InitEndToEnd /\ [][NextEndToEnd]_vars

\* ------------- devices of different widths on two chip-selects: SpecWidth
WidthWidths == {8, 16}

\* the transfers: two bytes sent and received on either chip-select
WidthDescriptors == {Xfer(cs, 2, TRUE, TRUE, TxPattern(2)) : cs \in CS}

InitWidth ==
  /\ version = SPI_VERSION_2
  /\ clk_rate = 150000000
  /\ pdata = CHOOSE p \in PdataSet : p.poll_mode
  /\ use_dma = FALSE
  /\ ProbeState
  /\ speed = 0
  /\ cs_num = 0
  /\ SPIFMT = [c \in CS |-> {}]
  /\ NoCall
  /\ NoSnapshot
  /\ XferIdle
  /\ SPIGCR1 = {"MASTER"}

\* between the transfers of the worker, davinci_spi_setup and
\* davinci_spi_setup_transfer are called for the devices of both
\* chip-selects; the worker makes MaxCalls transfers by davinci_spi_bufs_pio
NextWidth ==
  \/ \E cs \in CS, bits \in WidthWidths :
       /\ MayCall(1)
       /\ davinci_spi_setup(cs, bits, 1000000, {"SPI_LOOP"}, TRUE, TRUE)
       /\ UNCHANGED ncalls
  \/ \E cs \in CS, bits \in WidthWidths \cup {0} :
       /\ MayCall(1)
       /\ davinci_spi_setup_transfer(cs, bits, 0)
       /\ UNCHANGED ncalls
  \/ \E d \in WidthDescriptors :
       /\ spi_dev[d.cs].registered
       /\ Tick
       /\ bufs_pio_entry(1, d)
  \/ PioSteps(1)
  \/ HwTransfer

SpecWidth == InitWidth /\ [][NextWidth]_vars

\* ------------------------------------------------------------------ the claims
\* C1 (as stated): a transfer call issued while in_use is already true is
\* rejected or blocked by the engine: it writes no register while the call
\* that set in_use is still in flight.
C1_SecondCallBlocked == ~overlap_write

\* C2: on every return from a transfer call in_use is false, and a call that
\* had set in_use has signalled the completion 'done' before it returned.
C2_ReleasedOnReturn ==
  \A t \in Threads :
    ctx[t].pc = "returned" =>
      /\ ~in_use
      /\ ctx[t].claimed => (ctx[t].signalled /\ done > 0)

\* C2 witness: a call that had set in_use returns -ENOMEM after a buffer
\* mapping failed, with in_use cleared and the completion signalled
C2_Witness ==
  /\ ctx[1].pc = "returned"
  /\ ctx[1].ret = "ENOMEM"
  /\ ctx[1].claimed
  /\ ctx[1].signalled
  /\ ~in_use

\* the first n bytes of the receive buffer of caller t equal those it sent
SameBytes(t, n) == \A k \in 1..n : rxbuf[t][k] = ctx[t].t.tx_buf[k]

\* C3 (as stated): with loop-back enabled and no error flag raised, a
\* full-duplex PIO transfer of n >= 1 words leaves the receive buffer equal,
\* word for word, to the transmit buffer.
C3_LoopbackRoundTrip ==
  \A t \in Threads :
    (/\ ctx[t].pc = "returned" /\ ctx[t].ret = "OK" /\ ~ctx[t].hw_err
     /\ ~use_dma /\ ctx[t].t.has_tx /\ ctx[t].t.has_rx
     /\ "LOOPBACK" \in SPIGCR1
     /\ ctx[t].t.len \div BytesPerWord(ctx[t].t.cs) >= 1)
    => SameBytes(t, (ctx[t].t.len \div BytesPerWord(ctx[t].t.cs))
                      * BytesPerWord(ctx[t].t.cs))

\* C8 (as stated): a transfer call that succeeds returns the number of words
\* it transferred multiplied by bytes-per-word, for every length len.
C8_ReturnsWordsTimesWidth ==
  \A t \in Threads :
    (ctx[t].pc = "returned" /\ ctx[t].ret = "OK")
      => ReturnedLen(t) = ctx[t].words * BytesPerWord(ctx[t].t.cs)

\* C4 (as stated): for every rate hz with 0 < hz <= ref_clock/2 the prescale
\* computed by davinci_spi_calc_clk_div gives ref_clock/(prescale+1) <= hz,
\* or is the floor 2, or is the ceiling 255.
C4_PrescaleMeetsRate ==
  (last_op = "calc_clk_div" /\ 0 < speed /\ speed <= clk_rate \div 2)
    => \/ clk_rate \div (prescale + 1) <= speed
       \/ prescale = PRESCALE_MIN
       \/ prescale = PRESCALE_MAX

\* the order of the classifier's tests, and the outcome and diagnostic of each
Priority == <<"TIMEOUT", "DESYNC", "BITERR", "DLEN_ERR", "PARERR", "OVRRUN",
              "TX_INTR", "BUF_INIT_ACTIVE">>

FlagRet(f) == IF f = "TIMEOUT" THEN "ETIMEDOUT"
              ELSE IF f = "BUF_INIT_ACTIVE" THEN "EBUSY"
              ELSE "EIO"

FlagDiag(f) ==
  CASE f = "TIMEOUT" -> "SPI Time-out Error"
    [] f = "DESYNC" -> "SPI Desynchronization Error"
    [] f = "BITERR" -> "SPI Bit error"
    [] f = "DLEN_ERR" -> "SPI Data Length Error"
    [] f = "PARERR" -> "SPI Parity Error"
    [] f = "OVRRUN" -> "SPI Data Overrun error"
    [] f = "TX_INTR" -> "SPI TX intr bit set"
    [] f = "BUF_INIT_ACTIVE" -> "SPI Buffer Init Active"

\* the flag of st that comes first in the priority order (st not empty)
FirstFlag(st) ==
  Priority[CHOOSE i \in 1..Len(Priority) :
             Priority[i] \in st /\ \A j \in 1..(i - 1) : Priority[j] \notin st]

\* the flags the classifier tests on hardware version v
TestedFlags(v) == IF v > SPI_VERSION_2 THEN ErrFlags
                  ELSE {"TIMEOUT", "DESYNC", "BITERR"}

Single(st) == Cardinality(st) = 1
TheFlag(st) == CHOOSE f \in st : TRUE

C5_WidthNegotiation ==
  (last_op \in {"setup", "setup_transfer"} /\ last_width >= 0) =>
    IF last_width \in 2..8
    THEN /\ last_ret = "OK"
         /\ get_rx = "u8" /\ get_tx = "u8"
         /\ slave[last_cs].bytes_per_word = 1
    ELSE IF last_width \in 9..16
    THEN /\ last_ret = "OK"
         /\ get_rx = "u16" /\ get_tx = "u16"
         /\ slave[last_cs].bytes_per_word = 2
    ELSE last_ret = "EINVAL" /\ wrote = {}

\* chip-select c holds the channel of handle h
Holds(c, h) == h \in DOMAIN edma_owner /\ edma_owner[h] = c
HeldBy(c) == {h \in DOMAIN edma_owner : edma_owner[h] = c}

\* C9 (as stated): after every return of davinci_spi_request_dma and of
\* davinci_spi_setup the RX and TX channels of the chip-select are both
\* allocated, or both unallocated with both handles at -1; a TX allocation
\* that fails after the RX one succeeded leaves the RX channel freed and its
\* handle reset.
C9_PairInvariant ==
  last_op = "setup" =>
    LET d == dma_channels[last_cs]
    IN /\ \/ /\ Holds(last_cs, d.dma_rx_channel)
             /\ Holds(last_cs, d.dma_tx_channel)
          \/ /\ HeldBy(last_cs) = {}
             /\ d.dma_rx_channel = NO_CHANNEL
             /\ d.dma_tx_channel = NO_CHANNEL
       /\ req_ret = "tx_failed" =>
            (last_ret = "EAGAIN" /\ HeldBy(last_cs) = {}
               /\ d.dma_rx_channel = NO_CHANNEL)

\* C10: when the pair of a chip-select was never allocated in full,
\* davinci_spi_cleanup frees no channel that is not allocated to it
\* (neither the one whose allocation failed nor the one the unwinding freed).
C10_NoFreeOfUnallocated ==
  \A c \in CS : ~ever_paired[c] => edma_bad_free[c] = {}

\* C10 witness: the TX allocation failed after the RX one, and the cleanup
\* of that chip-select has run
C10_Witness ==
  /\ last_op = "cleanup"
  /\ req_ret = "tx_failed"
  /\ ~ever_paired[last_cs]
  /\ dma_channels[last_cs].dma_rx_channel = NO_CHANNEL
  /\ edma_bad_free[last_cs] = {}

\* C11 (as stated): when a buffer mapping fails inside davinci_spi_bufs_dma,
\* every buffer mapped earlier in the same call (the caller's transmit buffer
\* or, for a receive-only transfer, the scratch transmit buffer) has been
\* unmapped when the call returns -ENOMEM, and the call has started no DMA
\* channel.
C11_MapFailureUnwinds ==
  \A t \in Threads :
    (ctx[t].pc = "returned" /\ ctx[t].ret = "ENOMEM")
      => (mapped = {} /\ ~ctx[t].started)

\* C12: a deactivation request (davinci_spi_chipselect with
\* BITBANG_CS_INACTIVE) returns only on a read of SPIBUF that shows the
\* receive-data-empty flag set, never while the flag is still clear, and by
\* then SPIDEF holds the default level of every chip-select and SPIDAT1 the
\* default-level command word; a request with any other value writes no
\* register.
C12_Quiescence ==
  [][\A t \in Threads :
       /\ (ctx[t].pc = "cs_drain" /\ ctx'[t].pc # "cs_drain")
            => /\ SpiBuf.rxempty
               /\ CS_DEFAULT \subseteq SPIDEF
               /\ SPIDAT1 = CmdWord(FALSE, CS_DEFAULT, 0)
       /\ (ncalls' # ncalls /\ ctx'[t].op = "cs_active")
            => UNCHANGED <<ioVars, hwVars, SPIFMT>>]_vars

\* C12 witness: a deactivation request issued while the flag was clear has
\* spun on SPIBUF and returned with the flag set
C12_Witness ==
  /\ ctx[1].op = "cs_inactive"
  /\ ctx[1].pc = "idle"
  /\ ctx[1].spun
  /\ ~rxfull
  /\ CS_DEFAULT \subseteq SPIDEF

\* the transfer that was in flight when context n read in_use set has
\* signalled its completion: it is the call of the worker now returned, or
\* the worker has begun a later call
ObservedSignalled(n) ==
  \/ ncalls > ctx[n].i
  \/ ctx[1].signalled

\* C13 (as stated): in every interleaving of the notifications with transfer
\* calls, the notifier executes davinci_spi_calc_clk_div only in states where
\* in_use is false, and a PRECHANGE that read in_use true does not return
\* before that transfer has signalled the completion.
C13_NoMidTransferReprogram ==
  [][\A n \in Threads :
       /\ (ctx[n].pc = "freq_post" /\ ctx'[n].pc # "freq_post") => ~in_use
       /\ (ctx[n].pc = "freq_wait" /\ ctx'[n].pc # "freq_wait")
            => (done > 0 /\ ObservedSignalled(n))]_vars

\* C14 (as stated): a suspend request made while a transfer is in flight
\* waits for the completion for a bounded time; signalled in time, it then
\* disables the controller and returns success; otherwise it returns
\* -ETIMEDOUT and leaves the enable bit and the clock untouched; and in no
\* interleaving does the request clear the enable bit while in_use is true.
C14_SuspendWaitsForTransfer ==
  [][\A n \in Threads :
       /\ (ctx[n].pc = "susp_wait" /\ ctx'[n].pc = "susp_disable")
            => (done > 0 /\ ObservedSignalled(n))
       /\ (ctx[n].pc = "susp_wait" /\ ctx'[n].pc = "returned")
            => (ctx'[n].ret = "ETIMEDOUT" /\ UNCHANGED <<SPIGCR1, clk_enabled>>)
       /\ (ctx[n].pc = "susp_disable" /\ ctx'[n].pc = "returned")
            => /\ ctx'[n].ret = "OK"
               /\ "SPIENA" \notin SPIGCR1'
               /\ ~in_use]_vars

\* C15 (as stated): a requested bit rate outside the band 600 kHz..50 MHz is
\* rejected with -EINVAL before any register is written, both the device
\* rate checked by davinci_spi_setup and the rate a transfer overrides it
\* with in davinci_spi_setup_transfer (the rate bound as 'speed' when it is
\* not the device's).
C15_RateOutOfRangeRejected ==
  /\ (last_op = "setup" /\ RateOutOfRange(spi_dev[last_cs].max_speed_hz))
       => (last_ret = "EINVAL" /\ wrote = {})
  /\ (last_op = "setup_transfer" /\ speed # spi_dev[last_cs].max_speed_hz
        /\ RateOutOfRange(speed))
       => (last_ret = "EINVAL" /\ wrote = {})

\* the scenario of C16: reference clock 150 MHz, bit rate 1 MHz, 8-bit words,
\* loop-back, transmit buffer [0x12, 0x34] and a 2-byte receive buffer, the
\* full-duplex call returned with no error flag read
EndToEndScenario ==
  /\ clk_rate = 150000000
  /\ last_op = "setup"
  /\ spi_dev[0].max_speed_hz = 1000000
  /\ spi_dev[0].bits_per_word = 8
  /\ "SPI_LOOP" \in spi_dev[0].mode
  /\ ctx[1].pc = "returned"
  /\ ctx[1].t = Xfer(0, 2, TRUE, TRUE, <<18, 52>>)
  /\ ~ctx[1].hw_err

\* C16: in that scenario the prescale field holds 149, the call returns the
\* byte count 2 and the receive buffer equals [0x12, 0x34].
C16_EndToEnd ==
  EndToEndScenario
    => /\ FieldVal(SPIFMT[0], PRESCALE_SHIFT, 8) = 149
       /\ ctx[1].ret = "OK"
       /\ ReturnedLen(1) = 2
       /\ rxbuf[1] = <<18, 52>>

\* C16 witness: the scenario has run to its end, two words were sent and the
\* second byte received is 0x34
C16_Witness ==
  /\ EndToEndScenario
  /\ ctx[1].words = 2
  /\ rxbuf[1][2] = 52

\* C17 (as stated): in an iteration of the full-duplex PIO loop that reads
\* the transmit-full flag set, no command word is written, the remaining
\* count is not decremented and the transmit cursor does not move past the
\* word, so that the next iteration offers the same word again; hence at the
\* head of every iteration the cursor stands at the first word not yet
\* written, and each word is written once, in buffer order.
C17_FifoFullRetry ==
  /\ [][\A t \in Threads :
          (ctx[t].pc = "fd_fetch" /\ ctx'[t].pc = "fd_wait" /\ SpiBuf.txfull)
            => /\ UNCHANGED <<SPIDAT1, tx>>
               /\ ctx'[t].count = ctx[t].count]_vars
  /\ [](\A t \in Threads :
          ctx[t].pc = "fd_fetch" => tx.off = ctx[t].words * AccessorBytes(get_tx))

\* C18 (as stated): in every transfer call, by PIO and by DMA, in_use is set
\* before the call's first write to a controller register: no step of a
\* transfer call writes a register in a state where in_use is false.
C18_InUseBeforeRegisters ==
  [][\A t \in Threads :
       (/\ ctx'[t].pc # ctx[t].pc
        /\ ctx'[t].op = "none"
        /\ <<ioVars, SPIFMT>>' # <<ioVars, SPIFMT>>)
         => in_use]_vars

\* C19 (as stated): for every rate hz > 0 and every reference clock,
\* davinci_spi_calc_clk_div changes only the prescale field (bits 8..15) of
\* the format register of the bound chip-select: the value stored fits in 8
\* bits, and every bit of that register outside the field, and every other
\* register, is unchanged.
C19_DivisorWriteFrame ==
  [][(last_op' = "calc_clk_div" /\ last_op # "calc_clk_div")
       => /\ prescale' \in 0..PRESCALE_MAX
          /\ FieldVal(SPIFMT'[cs_num], PRESCALE_SHIFT, 8) = prescale'
          /\ SPIFMT'[cs_num] \ PRESCALE_MASK = SPIFMT[cs_num] \ PRESCALE_MASK
          /\ \A c \in CS \ {cs_num} : SPIFMT'[c] = SPIFMT[c]
          /\ UNCHANGED ioVars]_vars

\* C20 (as stated): in every interleaving of davinci_spi_bufs_dma with the
\* TX and RX completion callbacks, the DMA-request-enable bit of SPIINT is
\* already clear when the engine unmaps a buffer (when the call stands at
\* its dma_unmap_single calls, the waits behind it).
C20_RequestOffBeforeUnmap ==
  \A t \in Threads :
    ctx[t].pc = "dma_unmap" => "DMA_REQ_EN" \notin SPIINT

\* the call of caller t is a receive-only transfer by interrupt
IrqModeCall(t) ==
  /\ ~use_dma
  /\ ~pdata.poll_mode
  /\ ctx[t].op = "none"
  /\ ~ctx[t].t.has_tx
  /\ ctx[t].t.has_rx

\* C21 (as stated): for a receive-only, non-poll PIO transfer of n words, in
\* every interleaving of the issuing loop with the interrupt handler, the
\* handler captures exactly n words into the receive buffer (the receive
\* cursor stands n words into it when the call has returned), and the loop
\* writes the command word for word i+1, or the parking command word, only
\* after the handler has captured word i.
C21_IrqHandshake ==
  \A t \in Threads :
    IrqModeCall(t) =>
      /\ ctx[t].pc = "returned"
           => rx.off = (ctx[t].t.len \div BytesPerWord(ctx[t].t.cs)) * AccessorBytes(get_rx)
      /\ ctx[t].pc = "ir_issue" => rx.off >= ctx[t].i * AccessorBytes(get_rx)

PolledCall(t) ==
  /\ ~use_dma
  /\ ctx[t].op = "none"
  /\ ctx[t].t.has_tx \/ pdata.poll_mode

InPolledCall(t) == PolledCall(t) /\ ~MayCall(t)

InRxWait(t) == At(t, "fd_wait") \/ At(t, "po_wait")

\* C23: with a hardware that shifts out every word written, every call of
\* the PIO engine that is full-duplex or receive-only polled eventually
\* returns with in_use false and the completion signalled; in a wait for a
\* received word in_use is true, and as long as the hardware presents no
\* word the call stays in that wait.
C23_PioTerminates ==
  /\ InPolledCall(1) ~> (At(1, "returned") /\ ~in_use /\ done > 0)
  /\ [](InPolledCall(1) /\ InRxWait(1) => in_use)
  /\ [][(InPolledCall(1) /\ InRxWait(1) /\ SpiBuf.rxempty /\ rxfull' = rxfull)
          => (ctx'[1].pc = ctx[1].pc /\ in_use')]_vars

\* C23 witness: a receive-only polled call of two words or more has returned
C23_Witness ==
  /\ PolledCall(1)
  /\ At(1, "returned")
  /\ ~ctx[1].t.has_tx
  /\ ctx[1].words >= 2
  /\ ~in_use
  /\ done > 0

\* a call of davinci_spi_bufs_pio by caller t, in flight or returned
PioCall(t) == ~use_dma /\ ctx[t].op = "none" /\ ctx[t].pc # "idle"

\* c = len / bytes-per-word of the call of caller t
ElementCount(t) == ctx[t].t.len \div BytesPerWord(ctx[t].t.cs)

\* C24 (as stated): during a PIO transfer of c = len / bytes-per-word
\* elements the transmit accessor is invoked at most c times and the receive
\* accessor at most c times, and neither cursor moves past the end of its
\* buffer, for every c >= 0 and every schedule of the transmit-full flag.
C24_CursorBound ==
  \A t \in Threads :
    PioCall(t) =>
      /\ tx.buf = t => /\ tx.off <= ElementCount(t) * AccessorBytes(get_tx)
                       /\ tx.off <= ctx[t].t.len
      /\ rx.buf = t => /\ rx.off <= ElementCount(t) * AccessorBytes(get_rx)
                       /\ rx.off <= ctx[t].t.len
      /\ ~ctx[t].oob

\* a call of davinci_spi_bufs_dma by caller t that has started channels
DmaCallStarted(t) == use_dma /\ ctx[t].op = "none" /\ ctx[t].started

\* the call of caller t is past its dma_unmap_single calls
AfterUnmap(t) == ctx[t].pc \in {"xfer_status", "xfer_out", "xfer_complete", "returned"}

\* the channels of chip-select cs whose completion callback has yet to run
PendingCallbacks(cs) ==
  {h \in {dma_channels[cs].dma_rx_channel, dma_channels[cs].dma_tx_channel} :
     h \in DOMAIN edma_state /\ edma_state[h] = "started"}

\* C25 (as stated): when davinci_spi_bufs_dma has started channels, every
\* channel it started has had its completion callback run once the buffers
\* are unmapped, and so when in_use is cleared and when the call returns, for
\* transmit-only, receive-only and full-duplex transfers: no callback of the
\* transfer is still to fire then.
C25_CallbacksBeforeReturn ==
  \A t \in Threads :
    (DmaCallStarted(t) /\ AfterUnmap(t)) => PendingCallbacks(ctx[t].t.cs) = {}

\* C26 (as stated): the mask step of davinci_spi_irq clears only the
\* receive and transmit interrupt-enable bits of SPIINT: every other bit has
\* the same value after the step as before, so the step enables no source
\* that was disabled.
C26_IrqMaskFrame ==
  [][irq_capture => /\ SPIINT' \ {"RX_INTR", "TX_INTR"} = SPIINT \ {"RX_INTR", "TX_INTR"}
                    /\ SPIINT' \subseteq SPIINT]_vars

\* C27 (as stated): after any sequence of davinci_spi_setup and
\* davinci_spi_setup_transfer calls over several chip-selects, while a
\* transfer engine runs on chip-select c the accessor pair bound on the
\* controller has the word size of bytes_per_word[c], so the element count
\* and the stride of the cursors agree.
C27_AccessorMatchesWidth ==
  \A t \in Threads :
    (ctx[t].op = "none" /\ ~MayCall(t)) =>
      /\ AccessorBytes(get_rx) = BytesPerWord(ctx[t].t.cs)
      /\ AccessorBytes(get_tx) = BytesPerWord(ctx[t].t.cs)

\* C28 (as stated): over any sequence of davinci_spi_setup and
\* davinci_spi_cleanup calls on a chip-select, no channel is freed that is
\* not allocated to it (none is freed twice), a davinci_spi_setup that
\* returns an error leaves no channel allocated to the chip-select, and a
\* davinci_spi_setup that succeeds, also after a cleanup, leaves both
\* channels of the pair allocated.
C28_ChannelLifecycle ==
  /\ \A c \in CS : edma_bad_free[c] = {}
  /\ (last_op = "setup" /\ last_ret # "OK") => HeldBy(last_cs) = {}
  /\ (last_op = "setup" /\ last_ret = "OK") =>
       /\ Holds(last_cs, dma_channels[last_cs].dma_rx_channel)
       /\ Holds(last_cs, dma_channels[last_cs].dma_tx_channel)

====
